---- MODULE Spec2Model ----
(***************************************************************************)
(* Memory Retrieval Engine of claude-memory-mcp: the JSONL event log       *)
(* (EventStore), the keyword index with decay metadata (IndexService),     *)
(* the budgeted context loader (ContextLoader), the session compactor      *)
(* (Compactor) and the CLI store command.                                  *)
(*                                                                         *)
(* Time is Date.now() in milliseconds, counted from 2025-09-30T00:00:00Z   *)
(* (TLC integers are 32 bit wide).  One action is one call; the clock      *)
(* does not advance inside a call.                                         *)
(***************************************************************************)
EXTENDS Integers, Sequences, FiniteSets, TLC

VARIABLES
    now,               \* Date.now(), ms since 2025-09-30T00:00:00Z
    ticks,             \* how often the clock has advanced
    eventFiles,        \* events/<YYYY-MM-DD>.jsonl: file name -> file
    appended,          \* history: the events appendEvent returned, in call order
    sessionFile,       \* current-session.txt of the CLI: <<>> or <<[sessionId, timestamp]>>
    index,             \* index.json / IndexService.index
    currentSessionId,  \* Compactor.currentSessionId
    compacted,         \* compacted/<YYYY-MM>.json: month key -> file
    vectors,           \* VectorStore.vectors: event id -> vector
    call,              \* the buildContext call that waits for the embedding provider
    shortterm,         \* shortterm_memory.md of the dual-memory server
    counter,           \* the Counter object of the dual-memory server
    calls,             \* the tool calls of the dual-memory server: call -> handler
    stores,            \* the store commands that run side by side: process -> its state
    last               \* the last call and what it returned

\* The state of the dual-memory server.
server == <<shortterm, counter, calls>>

vars == <<now, ticks, eventFiles, appended, sessionFile, index, currentSessionId, compacted,
          vectors, call, shortterm, counter, calls, stores, last>>

----------------------------------------------------------------------------
(* Bounds of the model *)

MaxEvents == 2      \* events in the log
MaxLogEvents == 3   \* events in the log, where only the log and the index are written
MaxTicks == 2       \* clock advances
MaxDays == 1        \* clock advances, where every operation of the engine is called
MaxAccess == 2      \* highest accessCount reached by recordAccess
MaxIndexed == 3     \* highest eventCount of a session reached by a repeated addToIndex
MaxCalls == 3       \* tool calls of the dual-memory server

----------------------------------------------------------------------------
(* Clock and calendar *)

MsPerMinute == 60 * 1000
MsPerHour == 60 * 60 * 1000
MsPerDay == 24 * MsPerHour

\* The first call happens one millisecond before midnight of 2025-09-30 (UTC),
\* so that one millisecond later the day, the month and the number of digits
\* of the month all change.
StartTime == MsPerDay - 1

\* The clock advances by one millisecond or by one day.
TickSteps == {1, MsPerDay}

\* Date.prototype.toISOString, date part, as <<year, month, day>>; the model's
\* window is 2025-09-30 .. 2025-10-24.
DateParts(t) ==
    LET d == t \div MsPerDay
    IN  IF d = 0 THEN <<2025, 9, 30>> ELSE <<2025, 10, d>>

\* Characters of file names and date strings are numbers ordered as their
\* UTF-16 code units are: '-' < '.' < '0' < ... < '9'.
Dash == 0 - 2
Dot == 0 - 1

Pad2(n) == <<n \div 10, n % 10>>
Pad4(n) == <<n \div 1000, (n \div 100) % 10, (n \div 10) % 10, n % 10>>

\* toISOString().split('T')[0]: "YYYY-MM-DD"
DateStr(t) ==
    LET p == DateParts(t)
    IN  Pad4(p[1]) \o <<Dash>> \o Pad2(p[2]) \o <<Dash>> \o Pad2(p[3])

\* A date string without zero padding ("2025-9-30", "2025-10-1").
Digits(n) == IF n < 10 THEN <<n>> ELSE Pad2(n)
DateStrUnpadded(t) ==
    LET p == DateParts(t)
    IN  Pad4(p[1]) \o <<Dash>> \o Digits(p[2]) \o <<Dash>> \o Digits(p[3])

\* timestamp.substring(0, 7): "YYYY-MM"
MonthKey(t) == SubSeq(DateStr(t), 1, 7)

\* String comparison of Array.prototype.sort(): code unit by code unit, a
\* proper prefix first.
\* The member of a set of one member.  In Once({e : x \in {v}}) the value v is
\* computed once and named x in e, as a const of the code is.
Once(S) == CHOOSE x \in S : TRUE

RECURSIVE LexLess(_, _)
LexLess(a, b) ==
    IF b = <<>> THEN FALSE
    ELSE IF a = <<>> THEN TRUE
    ELSE IF Head(a) # Head(b) THEN Head(a) < Head(b)
    ELSE LexLess(Tail(a), Tail(b))

RECURSIVE SortNames(_)
SortNames(S) ==
    IF S = {} THEN <<>>
    ELSE Once({<<m>> \o Once({SortNames(rest) : rest \in {S \ {m}}})
               : m \in {CHOOSE x \in S : \A y \in S : x = y \/ LexLess(x, y)}})

----------------------------------------------------------------------------
(* Text.  A text is a sequence of atoms: a run of letters and digits, or one *)
(* other character.  A content is a text followed by pad filler characters   *)
(* ('.'), which no operation below treats differently from no character.     *)

Whitespace == {" ", "\n", "\t"}
Punctuation == {"-", "\"", "\\", ".", ",", "?", "!", "{", "}"}

IsWordAtom(a) == a \notin Whitespace /\ a \notin Punctuation

\* String.prototype.toLowerCase on the atoms the model uses.
ToLowerCase(a) ==
    CASE a = "Cat" -> "cat"
      [] a = "Ok" -> "ok"
      [] a = "Dog" -> "dog"
      [] OTHER -> a

\* String.prototype.includes on the words the model uses
ProperSubstrings == {<<"catdog", "cat">>, <<"catdog", "dog">>}
StrIncludes(a, b) == a = b \/ <<a, b>> \in ProperSubstrings

\* /^\d+$/
IsNumeric(a) == a \in {"42", "2025"}

RECURSIVE TextLen(_)
TextLen(text) == IF text = <<>> THEN 0 ELSE Len(Head(text)) + TextLen(Tail(text))

ContentLength(c) == TextLen(c.text) + c.pad

RECURSIVE SeqToSet(_)
SeqToSet(s) == IF s = <<>> THEN {} ELSE {Head(s)} \cup SeqToSet(Tail(s))

Includes(s, x) == \E i \in 1..Len(s) : s[i] = x

RECURSIVE Occurrences(_, _)
Occurrences(s, x) ==
    IF s = <<>> THEN 0
    ELSE (IF Head(s) = x THEN 1 ELSE 0) + Occurrences(Tail(s), x)

\* filter((word, index, arr) => arr.indexOf(word) === index)
RECURSIVE Unique(_)
Unique(s) ==
    IF s = <<>> THEN <<>>
    ELSE Once({IF Includes(front, x) THEN front ELSE Append(front, x)
               : front \in {Unique(SubSeq(s, 1, Len(s) - 1))}, x \in {s[Len(s)]}})

----------------------------------------------------------------------------
(* Keyword extraction of the CLI (triggers/keywords.ts) *)

STOPWORDS_EN ==
    {"the", "a", "an", "is", "are", "was", "were", "be", "been", "being",
     "have", "has", "had", "do", "does", "did", "will", "would", "could", "should",
     "i", "you", "he", "she", "it", "we", "they", "me", "him", "her", "us", "them",
     "my", "your", "his", "its", "our", "their",
     "this", "that", "these", "those", "what", "which", "who", "whom", "how",
     "when", "where", "why",
     "to", "of", "in", "for", "on", "with", "at", "by", "from", "as", "into", "through",
     "and", "or", "but", "if", "then", "else", "so", "because", "although",
     "all", "each", "every", "both", "few", "more", "most", "other", "some", "such",
     "no", "not", "only", "own", "same", "than", "too", "very", "just", "also",
     "can", "may", "must", "shall", "need", "want", "get", "got", "let"}

STOPWORDS_DE ==
    {"der", "die", "das", "ein", "eine", "einer", "einem", "einen", "eines",
     "ist", "sind", "war", "waren", "sein", "haben", "hat", "hatte", "hatten",
     "ich", "du", "er", "sie", "es", "wir", "ihr", "mich", "dich", "sich", "uns", "euch",
     "mein", "dein", "unser", "euer",
     "und", "oder", "aber", "wenn", "dann", "weil", "obwohl", "dass",
     "zu", "von", "in", "an", "auf", "mit", "bei", "nach", "aus", "durch", "fuer",
     "als", "wie", "was", "wer", "wo", "wann", "warum", "welche", "welcher", "welches",
     "auch", "noch", "schon", "nur", "sehr", "mehr", "immer", "wieder", "hier", "da",
     "nicht", "kein", "keine", "keiner", "keinem", "keinen", "keines",
     "kann", "muss", "will", "soll", "darf", "mag"}

STOPWORDS == STOPWORDS_EN \cup STOPWORDS_DE

\* toLowerCase().replace(/[^a-z0-9...\s]/g, ' ').split(/\s+/): the maximal runs
\* of word atoms, lowercased; `word` is the run being read.
RECURSIVE SplitWords(_, _)
SplitWords(text, word) ==
    IF text = <<>> THEN (IF word = "" THEN <<>> ELSE <<word>>)
    ELSE IF IsWordAtom(Head(text))
         THEN SplitWords(Tail(text), word \o ToLowerCase(Head(text)))
         ELSE (IF word = "" THEN <<>> ELSE <<word>>) \o SplitWords(Tail(text), "")

KeepKeyword(word) == Len(word) > 2 /\ word \notin STOPWORDS /\ ~IsNumeric(word)

extractKeywords(content) == Unique(SelectSeq(SplitWords(content.text, ""), KeepKeyword))

----------------------------------------------------------------------------
(* shouldStore (triggers/importance.ts) *)

\* String.prototype.trim on a text: the whitespace atoms at its ends are dropped
RECURSIVE TrimStart(_)
TrimStart(text) ==
    IF text # <<>> /\ Head(text) \in Whitespace THEN TrimStart(Tail(text)) ELSE text

RECURSIVE TrimEnd(_)
TrimEnd(text) ==
    IF text # <<>> /\ text[Len(text)] \in Whitespace
    THEN TrimEnd(SubSeq(text, 1, Len(text) - 1)) ELSE text

\* content.trim().toLowerCase(); the filler characters of a content are not
\* whitespace, so a text is trimmed at its end only when no filler follows it
Trimmed(content) ==
    LET text == IF content.pad = 0 THEN TrimEnd(TrimStart(content.text))
                ELSE TrimStart(content.text)
    IN  [text |-> [i \in 1..Len(text) |-> ToLowerCase(text[i])], pad |-> content.pad]

\* /^ok+$/i, /^k$/i, /^y$/i, /^n$/i, /^ja+$/i, /^yes+$/i, /^no+$/i, /^nein+$/i
\* on the words the model uses
SkipWords == {"ok", "okk", "k", "y", "n", "ja", "jaa", "yes", "yess", "no", "noo",
              "nein", "neinn"}

shouldStore(content) ==
    LET trimmed == Trimmed(content)
    IN  IF ContentLength(content) = 0 \/ ContentLength(trimmed) = 0 THEN FALSE
        ELSE IF \A i \in 1..Len(trimmed.text) : trimmed.text[i] = "." THEN FALSE  \* /^\.+$/
        ELSE IF trimmed.pad = 0 /\ Len(trimmed.text) = 1 /\ trimmed.text[1] \in SkipWords
             THEN FALSE
        ELSE TRUE

----------------------------------------------------------------------------
(* EventStore (memory/store.ts).  A file is its characters (atoms) and, for  *)
(* each line written, the fields of the record other than the content text:  *)
(* a line is {"<content text, JSON-escaped>"} and a line feed.               *)

\* JSON.stringify of a string: the characters that must be escaped.
EscapeAtom(a) ==
    CASE a = "\"" -> <<"\\", "\"">>
      [] a = "\\" -> <<"\\", "\\">>
      [] a = "\n" -> <<"\\", "n">>
      [] a = "\t" -> <<"\\", "t">>
      [] OTHER -> <<a>>

RECURSIVE Escape(_)
Escape(text) == IF text = <<>> THEN <<>> ELSE EscapeAtom(Head(text)) \o Escape(Tail(text))

\* JSON.stringify(fullEvent)
Stringify(text) == <<"{", "\"">> \o Escape(text) \o <<"\"", "}">>

\* JSON.parse of a string body.  In the characters after the opening quote
\* a character is escaped when an odd number of backslashes runs up to it;
\* the string closes at the first quote that is not escaped.
Backslashes(chars, i) ==
    CHOOSE k \in 0..(i - 1) :
        /\ \A m \in (i - k)..(i - 1) : chars[m] = "\\"
        /\ (k < i - 1 => chars[i - k - 1] # "\\")

IsEscaped(chars, i) == Backslashes(chars, i) % 2 = 1

Unescape(c) ==
    CASE c = "n" -> "\n"
      [] c = "t" -> "\t"
      [] OTHER -> c

\* [ok, text, rest]; rest starts after the closing quote.  A raw control
\* character, an unknown escape or a missing closing quote is a SyntaxError.
ParseString(chars) ==
    LET quotes == {i \in 1..Len(chars) : chars[i] = "\"" /\ ~IsEscaped(chars, i)}
        close == CHOOSE i \in quotes : \A j \in quotes : i <= j
        Starts(i) == chars[i] = "\\" /\ ~IsEscaped(chars, i)
        Bad(i) == IF IsEscaped(chars, i)
                  THEN chars[i] \notin {"\"", "\\", "n", "t"}
                  ELSE chars[i] \in {"\n", "\t"}
    IN  IF quotes = {} THEN [ok |-> FALSE, text |-> <<>>, rest |-> <<>>]
        ELSE IF \E i \in 1..(close - 1) : Bad(i)
        THEN [ok |-> FALSE, text |-> <<>>, rest |-> <<>>]
        ELSE Once({[ok |-> TRUE,
                    text |-> [k \in 1..Len(kept) |->
                                 IF IsEscaped(chars, kept[k]) THEN Unescape(chars[kept[k]])
                                 ELSE chars[kept[k]]],
                    rest |-> SubSeq(chars, close + 1, Len(chars))]
                   : kept \in {SelectSeq([i \in 1..(close - 1) |-> i],
                                         LAMBDA i : ~Starts(i))}})

\* JSON.parse(line): [ok, text]
ParseLine(line) ==
    IF Len(line) < 2 \/ line[1] # "{" \/ line[2] # "\""
    THEN [ok |-> FALSE, text |-> <<>>]
    ELSE Once({IF r.ok /\ r.rest = <<"}">>
               THEN [ok |-> TRUE, text |-> r.text]
               ELSE [ok |-> FALSE, text |-> <<>>]
               : r \in {ParseString(SubSeq(line, 3, Len(line)))}})

\* content.split('\n')
SplitLines(chars) ==
    LET breaks == {i \in 1..Len(chars) : chars[i] = "\n"}
        starts == {1} \cup {i + 1 : i \in breaks}
        StartOf(k) == CHOOSE b \in starts : Cardinality({x \in starts : x < b}) = k - 1
        EndOf(k) == IF k = Cardinality(starts) THEN Len(chars) ELSE StartOf(k + 1) - 2
    IN  [k \in 1..Cardinality(starts) |-> SubSeq(chars, StartOf(k), EndOf(k))]

\* l.trim() is not empty
NotBlank(line) == \E i \in 1..Len(line) : line[i] \notin Whitespace

EmptyFile == [chars |-> <<>>, metas |-> <<>>]

\* readFile: [ok, events]; ok is FALSE when JSON.parse throws.
readFile(file) ==
    Once({Once({
        IF Len(lines) # Len(file.metas) \/ \E i \in 1..Len(lines) : ~parsed[i].ok
        THEN [ok |-> FALSE, events |-> <<>>]
        ELSE [ok |-> TRUE,
              events |-> [i \in 1..Len(lines) |->
                  [id |-> file.metas[i].id,
                   timestamp |-> file.metas[i].timestamp,
                   sessionId |-> file.metas[i].sessionId,
                   type |-> file.metas[i].type,
                   content |-> [text |-> parsed[i].text, pad |-> file.metas[i].pad],
                   keywords |-> file.metas[i].keywords,
                   emotionalWeight |-> file.metas[i].emotionalWeight]]]
        : parsed \in {[i \in 1..Len(lines) |-> ParseLine(lines[i])]}})
        : lines \in {SelectSeq(SplitLines(file.chars), NotBlank)}})

\* A file name without zero padding.
getFilePathUnpadded(t) == DateStrUnpadded(t) \o <<Dot>>

\* getFilePath: the name of today's file, "<YYYY-MM-DD>.jsonl"
getFilePath(t) == DateStr(t) \o <<Dot>>

\* getAllFiles: readdirSync(...).filter(...).map(...).sort()
getAllFiles(files) == SortNames(DOMAIN files)

RECURSIVE ReadAll(_, _)
ReadAll(files, names) ==
    IF names = <<>> THEN [ok |-> TRUE, events |-> <<>>]
    ELSE Once({[ok |-> f.ok /\ r.ok, events |-> f.events \o r.events]
               : f \in {readFile(files[Head(names)])},
                 r \in {ReadAll(files, Tail(names))}})

\* getEvents(): [ok, events]
getEvents(files) == ReadAll(files, getAllFiles(files))

\* getEvents(sessionId)
getSessionEvents(files, sessionId) ==
    LET OfSession(e) == e.sessionId = sessionId
    IN  Once({[ok |-> r.ok, events |-> SelectSeq(r.events, OfSession)]
              : r \in {getEvents(files)}})

\* generateId: 'evt_' + Date.now() + '_' + random
generateId(t, random) == <<t, random>>

\* appendEvent that writes the day's file anew instead of appending to it.
appendEventOverwrite(files, event, t, random) ==
    LET fullEvent == [id |-> generateId(t, random),
                      timestamp |-> t,
                      sessionId |-> event.sessionId,
                      type |-> event.type,
                      content |-> event.content,
                      keywords |-> event.keywords,
                      emotionalWeight |-> event.emotionalWeight]
        filePath == getFilePath(t)
        meta == [id |-> fullEvent.id,
                 timestamp |-> fullEvent.timestamp,
                 sessionId |-> fullEvent.sessionId,
                 type |-> fullEvent.type,
                 pad |-> fullEvent.content.pad,
                 keywords |-> fullEvent.keywords,
                 emotionalWeight |-> fullEvent.emotionalWeight]
        new == [chars |-> Stringify(fullEvent.content.text) \o <<"\n">>,
                metas |-> <<meta>>]
    IN  [event |-> fullEvent,
         files |-> [n \in DOMAIN files \cup {filePath} |->
                        IF n = filePath THEN new ELSE files[n]]]

\* appendEvent: [event, files]
appendEvent(files, event, t, random) ==
    LET fullEvent == [id |-> generateId(t, random),
                      timestamp |-> t,
                      sessionId |-> event.sessionId,
                      type |-> event.type,
                      content |-> event.content,
                      keywords |-> event.keywords,
                      emotionalWeight |-> event.emotionalWeight]
        filePath == getFilePath(t)
        old == IF filePath \in DOMAIN files THEN files[filePath] ELSE EmptyFile
        meta == [id |-> fullEvent.id,
                 timestamp |-> fullEvent.timestamp,
                 sessionId |-> fullEvent.sessionId,
                 type |-> fullEvent.type,
                 pad |-> fullEvent.content.pad,
                 keywords |-> fullEvent.keywords,
                 emotionalWeight |-> fullEvent.emotionalWeight]
        new == [chars |-> old.chars \o Stringify(fullEvent.content.text) \o <<"\n">>,
                metas |-> Append(old.metas, meta)]
    IN  [event |-> fullEvent,
         files |-> [n \in DOMAIN files \cup {filePath} |->
                        IF n = filePath THEN new ELSE files[n]]]

----------------------------------------------------------------------------
(* IndexService (memory/index.ts).  index.lastUpdate is written and never   *)
(* read, and is left out.                                                    *)

NoTime == 0 - 1                 \* an optional time that is absent
NoSummary == [text |-> <<>>, pad |-> 0 - 1]   \* SessionMeta.summary absent
NoSession == <<>>               \* currentSessionId === null
NoCall == <<>>                  \* no buildContext call is waiting

Put(f, k, v) == [x \in DOMAIN f \cup {k} |-> IF x = k THEN v ELSE f[x]]

EmptyIndex == [keywords |-> <<>>, sessions |-> <<>>, anchors |-> <<>>, eventMeta |-> <<>>]

\* index.json or vectors.json with a content that JSON.parse rejects
Unparseable == [unparseable |-> TRUE]

\* loadIndex, for the document doc of index.json: [ok, index]; ok is FALSE
\* when JSON.parse throws.  A file that does not exist gives the empty index.
loadIndex(doc) ==
    IF doc = Unparseable THEN [ok |-> FALSE, index |-> EmptyIndex]
    ELSE [ok |-> TRUE, index |-> doc]

\* The loop over event.keywords that pushes the id without looking for it
\* in the list.
RECURSIVE IndexKeywordsPushAlways(_, _, _)
IndexKeywordsPushAlways(kw, keywords, id) ==
    IF keywords = <<>> THEN kw
    ELSE LET lower == ToLowerCase(Head(keywords))
             ids == IF lower \in DOMAIN kw THEN kw[lower] ELSE <<>>
         IN  Once({IndexKeywordsPushAlways(next, Tail(keywords), id)
                   : next \in {Put(kw, lower, Append(ids, id))}})

\* the loop over event.keywords of addToIndex
RECURSIVE IndexKeywords(_, _, _)
IndexKeywords(kw, keywords, id) ==
    IF keywords = <<>> THEN kw
    ELSE LET lower == ToLowerCase(Head(keywords))
             ids == IF lower \in DOMAIN kw THEN kw[lower] ELSE <<>>
             ids2 == IF Includes(ids, id) THEN ids ELSE Append(ids, id)
         IN  Once({IndexKeywords(next, Tail(keywords), id) : next \in {Put(kw, lower, ids2)}})

\* addToIndex that pushes the anchor without looking for it in the list.
addToIndexPushAlways(idx, event) ==
    LET sid == event.sessionId
        s0 == IF sid \in DOMAIN idx.sessions THEN idx.sessions[sid]
              ELSE [id |-> sid, startTime |-> event.timestamp, endTime |-> NoTime,
                    summary |-> NoSummary, emotionalTone |-> "", eventCount |-> 0]
        s1 == [s0 EXCEPT !.eventCount = @ + 1, !.endTime = event.timestamp]
    IN  [keywords |-> IndexKeywords(idx.keywords, event.keywords, event.id),
         sessions |-> Put(idx.sessions, sid, s1),
         anchors |-> IF event.emotionalWeight >= 7
                     THEN Append(idx.anchors, event.id) ELSE idx.anchors,
         eventMeta |-> Put(idx.eventMeta, event.id,
                           [id |-> event.id, baseScore |-> event.emotionalWeight,
                            createdAt |-> event.timestamp, accessCount |-> 0,
                            lastAccessed |-> NoTime])]

addToIndex(idx, event) ==
    LET sid == event.sessionId
        s0 == IF sid \in DOMAIN idx.sessions THEN idx.sessions[sid]
              ELSE [id |-> sid, startTime |-> event.timestamp, endTime |-> NoTime,
                    summary |-> NoSummary, emotionalTone |-> "", eventCount |-> 0]
        s1 == [s0 EXCEPT !.eventCount = @ + 1, !.endTime = event.timestamp]
    IN  [keywords |-> IndexKeywords(idx.keywords, event.keywords, event.id),
         sessions |-> Put(idx.sessions, sid, s1),
         anchors |-> IF event.emotionalWeight >= 7 /\ ~Includes(idx.anchors, event.id)
                     THEN Append(idx.anchors, event.id) ELSE idx.anchors,
         eventMeta |-> Put(idx.eventMeta, event.id,
                           [id |-> event.id, baseScore |-> event.emotionalWeight,
                            createdAt |-> event.timestamp, accessCount |-> 0,
                            lastAccessed |-> NoTime])]

\* lookup: the ids under any of the keywords, in the order a Set keeps them
RECURSIVE lookup(_, _)
lookup(idx, keywords) ==
    IF keywords = <<>> THEN <<>>
    ELSE LET lower == ToLowerCase(keywords[Len(keywords)])
             ids == IF lower \in DOMAIN idx.keywords THEN idx.keywords[lower] ELSE <<>>
         IN  Once({Unique(both)
                   : both \in {lookup(idx, SubSeq(keywords, 1, Len(keywords) - 1)) \o ids}})

\* getAnchors(n): n ? anchors.slice(-n) : anchors
getAnchors(idx, n) ==
    IF n = 0 \/ Len(idx.anchors) <= n THEN idx.anchors
    ELSE SubSeq(idx.anchors, Len(idx.anchors) - n + 1, Len(idx.anchors))

\* updateSessionSummary that writes the tone and not the summary.
updateSessionSummaryToneOnly(idx, sessionId, summary, tone) ==
    IF sessionId \in DOMAIN idx.sessions
    THEN [idx EXCEPT !.sessions[sessionId].emotionalTone = IF tone # "" THEN tone ELSE @]
    ELSE idx

updateSessionSummary(idx, sessionId, summary, tone) ==
    IF sessionId \in DOMAIN idx.sessions
    THEN [idx EXCEPT !.sessions[sessionId].summary = summary,
                     !.sessions[sessionId].emotionalTone = IF tone # "" THEN tone ELSE @]
    ELSE idx

recordAccess(idx, eventId, t) ==
    IF eventId \in DOMAIN idx.eventMeta
    THEN [idx EXCEPT !.eventMeta[eventId].accessCount = @ + 1,
                     !.eventMeta[eventId].lastAccessed = t]
    ELSE idx

----------------------------------------------------------------------------
(* Session ids.  'session_<Date.now()>_<random>' of the CLI is <<"t", ms,    *)
(* random>>; 'session_<YYYY-MM-DD>_<HHMMSS>' of the Compactor is <<"d",      *)
(* YYYYMMDD, HHMMSS>> (the process runs in UTC).                             *)

SessionTimeoutMs == 30 * MsPerMinute

\* parseInt(timestamp, 10) of a file without a number after the '|': NaN,
\* and every comparison with NaN is false
NaN == 0 - 2

\* getSessionId that takes an activity exactly 30 minutes old as recent.
getSessionIdInclusive(file, t, random) ==
    IF file # <<>> /\ file[1].timestamp # NaN /\ t - file[1].timestamp <= SessionTimeoutMs
    THEN [sessionId |-> file[1].sessionId,
          file |-> <<[sessionId |-> file[1].sessionId, timestamp |-> t]>>]
    ELSE [sessionId |-> <<"t", t, random>>,
          file |-> <<[sessionId |-> <<"t", t, random>>, timestamp |-> t]>>]

\* getSessionId (cli.ts): [sessionId, file]
getSessionId(file, t, random) ==
    IF file # <<>> /\ file[1].timestamp # NaN /\ t - file[1].timestamp < SessionTimeoutMs
    THEN [sessionId |-> file[1].sessionId,
          file |-> <<[sessionId |-> file[1].sessionId, timestamp |-> t]>>]
    ELSE LET newSession == <<"t", t, random>>
         IN  [sessionId |-> newSession,
              file |-> <<[sessionId |-> newSession, timestamp |-> t]>>]

\* generateSessionId (compactor.ts)
generateSessionId(t) ==
    LET p == DateParts(t)
        secs == (t % MsPerDay) \div 1000
        hh == secs \div 3600
        mm == (secs \div 60) % 60
        ss == secs % 60
    IN  <<"d", p[1] * 10000 + p[2] * 100 + p[3], hh * 10000 + mm * 100 + ss>>

----------------------------------------------------------------------------
(* Compactor (memory/compactor.ts), the summary of a session.  The model's  *)
(* texts are shorter than 100 characters.                                    *)

RECURSIVE Dots(_)
Dots(n) == IF n = 0 THEN "" ELSE "." \o Dots(n - 1)

Min(a, b) == IF a < b THEN a ELSE b
Max(a, b) == IF a < b THEN b ELSE a

\* content.substring(0, n) as a text, for a content whose text is at most n long
Substring(content, n) ==
    LET fill == Min(content.pad, n - TextLen(content.text))
    IN  content.text \o (IF fill > 0 THEN <<Dots(fill)>> ELSE <<>>)

\* keywordCounts of extractTopKeywords: <<keyword, count>> in insertion order
RECURSIVE CountKeyword(_, _)
CountKeyword(counts, k) ==
    IF counts = <<>> THEN <<<<k, 1>>>>
    ELSE IF Head(counts)[1] = k THEN <<<<k, Head(counts)[2] + 1>>>> \o Tail(counts)
    ELSE <<Head(counts)>> \o CountKeyword(Tail(counts), k)

RECURSIVE CountKeywords(_, _)
CountKeywords(counts, keywords) ==
    IF keywords = <<>> THEN counts
    ELSE Once({CountKeywords(next, Tail(keywords))
               : next \in {CountKeyword(counts, ToLowerCase(Head(keywords)))}})

RECURSIVE KeywordCounts(_, _)
KeywordCounts(counts, events) ==
    IF events = <<>> THEN counts
    ELSE Once({KeywordCounts(next, Tail(events))
               : next \in {CountKeywords(counts, Head(events).keywords)}})

\* sort((a, b) => b[1] - a[1]): stable, by count, descending
RECURSIVE InsertByCount(_, _)
InsertByCount(sorted, x) ==
    IF sorted = <<>> THEN <<x>>
    ELSE IF Head(sorted)[2] >= x[2] THEN <<Head(sorted)>> \o InsertByCount(Tail(sorted), x)
    ELSE <<x>> \o sorted

RECURSIVE SortByCount(_)
SortByCount(s) ==
    IF s = <<>> THEN <<>>
    ELSE Once({InsertByCount(sorted, s[Len(s)]) : sorted \in {SortByCount(SubSeq(s, 1, Len(s) - 1))}})

Take(s, n) == SubSeq(s, 1, Min(n, Len(s)))

extractTopKeywords(events) ==
    Once({[i \in 1..Len(sorted) |-> sorted[i][1]]
          : sorted \in {Take(SortByCount(KeywordCounts(<<>>, events)), 10)}})

RECURSIVE Join(_, _)
Join(texts, sep) ==
    IF texts = <<>> THEN <<>>
    ELSE IF Len(texts) = 1 THEN texts[1]
    ELSE texts[1] \o sep \o Join(Tail(texts), sep)

IsImportant(e) == e.emotionalWeight >= 7
IsUser(e) == e.type = "user"
IsInsight(e) == e.type = "insight"

\* createSessionSummary: the summary string, as a content
createSessionSummary(events) ==
    LET first == events[1]
        lastEvent == events[Len(events)]
        userMessages == Len(SelectSeq(events, IsUser))
        insights == Len(SelectSeq(events, IsInsight))
        durationMs == lastEvent.timestamp - first.timestamp
        durationMin == (durationMs + 30000) \div 60000
        importantEvents ==
            Once({[i \in 1..Len(important) |-> Substring(important[i].content, 100)]
                  : important \in {Take(SelectSeq(events, IsImportant), 3)}})
        topKeywords ==
            Once({[i \in 1..Len(top) |-> <<top[i]>>]
                  : top \in {Take(extractTopKeywords(events), 5)}})
    IN  Once({
        [text |->
            <<"Session", " ", "(", ToString(durationMin), " ", "min", ",", " ",
              ToString(userMessages), " ", "messages", ")">>
            \o (IF insights > 0
                THEN <<",", " ", ToString(insights), " ", "insights">> ELSE <<>>)
            \o (IF Len(topics) > 0
                THEN <<".", " ", "Topics", ":", " ">> \o Join(topics, <<",", " ">>)
                ELSE <<>>)
            \o (IF Len(highlights) > 0
                THEN <<".", " ", "Highlights", ":", " ">>
                     \o Join(highlights, <<" ", "|", " ">>)
                ELSE <<>>),
         pad |-> 0]
        : topics \in {topKeywords}, highlights \in {importantEvents}})

RECURSIVE SumWeights(_)
SumWeights(events) ==
    IF events = <<>> THEN 0 ELSE Head(events).emotionalWeight + SumWeights(Tail(events))

RECURSIVE MaxWeight(_)
MaxWeight(events) ==
    IF Len(events) = 1 THEN events[1].emotionalWeight
    ELSE Max(Head(events).emotionalWeight, MaxWeight(Tail(events)))

\* calculateSessionEmotionalWeight: Math.round(max * 0.6 + avg * 0.4)
calculateSessionEmotionalWeight(events) ==
    IF Len(events) = 0 THEN 5
    ELSE LET n == Len(events)
         IN  (12 * MaxWeight(events) * n + 8 * SumWeights(events) + 10 * n) \div (20 * n)

----------------------------------------------------------------------------
(* Compactor: the monthly archives.  An archive file is [ok, sessions]; ok  *)
(* is FALSE for a file JSON.parse rejects.                                   *)

\* sort((a, b) => b.emotionalWeight - a.emotionalWeight): stable, descending
RECURSIVE InsertByWeight(_, _)
InsertByWeight(sorted, e) ==
    IF sorted = <<>> THEN <<e>>
    ELSE IF Head(sorted).emotionalWeight >= e.emotionalWeight
         THEN <<Head(sorted)>> \o InsertByWeight(Tail(sorted), e)
    ELSE <<e>> \o sorted

RECURSIVE SortByWeight(_)
SortByWeight(s) ==
    IF s = <<>> THEN <<>>
    ELSE Once({InsertByWeight(sorted, s[Len(s)]) : sorted \in {SortByWeight(SubSeq(s, 1, Len(s) - 1))}})

extractEmotionalHighlights(events) ==
    Once({[i \in 1..Len(top) |-> Substring(top[i].content, 200)]
          : top \in {Take(SortByWeight(SelectSeq(events, IsImportant)), 5)}})

HasSession(sessions, sessionId) == \E i \in 1..Len(sessions) : sessions[i].sessionId = sessionId

\* isSessionCompacted: "true", "false", or "throw" when a file read before
\* the session is found does not parse; readdirSync lists the files by name.
RECURSIVE ScanArchives(_, _, _)
ScanArchives(comp, names, sessionId) ==
    IF names = <<>> THEN "false"
    ELSE LET f == comp[Head(names)]
         IN  IF ~f.ok THEN "throw"
             ELSE IF HasSession(f.sessions, sessionId) THEN "true"
             ELSE ScanArchives(comp, Tail(names), sessionId)

\* isSessionCompacted that finds nothing.
isSessionCompactedNever(comp, sessionId) ==
    IF \E n \in DOMAIN comp : ~comp[n].ok THEN "throw" ELSE "false"

isSessionCompacted(comp, sessionId) == ScanArchives(comp, SortNames(DOMAIN comp), sessionId)

\* A saveCompactedSession that writes the month's file with the new entry alone.
saveCompactedSessionAlone(comp, c) ==
    [ok |-> TRUE, comp |-> Put(comp, MonthKey(c.startTime), [ok |-> TRUE, sessions |-> <<c>>])]

\* saveCompactedSession: [ok, comp]; ok is FALSE when it throws
saveCompactedSession(comp, c) ==
    LET monthKey == MonthKey(c.startTime)
        exists == monthKey \in DOMAIN comp
    IN  IF exists /\ ~comp[monthKey].ok THEN [ok |-> FALSE, comp |-> comp]
        ELSE LET sessions == IF exists THEN comp[monthKey].sessions ELSE <<>>
             IN  IF HasSession(sessions, c.sessionId) THEN [ok |-> TRUE, comp |-> comp]
                 ELSE [ok |-> TRUE,
                       comp |-> Put(comp, monthKey,
                                    [ok |-> TRUE, sessions |-> Append(sessions, c)])]

\* compactSession: [result, comp]
\* the CompactedSession that compactSession builds
CompactedOf(sessionId, events, t) ==
    [sessionId |-> sessionId,
     originalEventCount |-> Len(events),
     summary |-> createSessionSummary(events),
     keyTopics |-> extractTopKeywords(events),
     emotionalHighlights |-> extractEmotionalHighlights(events),
     averageImportance |-> calculateSessionEmotionalWeight(events),
     startTime |-> events[1].timestamp,
     endTime |-> events[Len(events)].timestamp,
     compactedAt |-> t]

compactSession(comp, files, sessionId, t) ==
    Once({
        IF ~r.ok THEN [result |-> FALSE, comp |-> comp]
        ELSE IF Len(r.events) = 0 THEN [result |-> FALSE, comp |-> comp]
        ELSE IF isSessionCompacted(comp, sessionId) # "false"
             THEN [result |-> FALSE, comp |-> comp]
        ELSE Once({IF ~saved.ok THEN [result |-> FALSE, comp |-> comp]
                   ELSE [result |-> TRUE, comp |-> saved.comp]
                   : saved \in {Once({saveCompactedSession(comp, c)
                                      : c \in {CompactedOf(sessionId, r.events, t)}})}})
        : r \in {getSessionEvents(files, sessionId)}})

SessionIdsOf(events) == Unique([i \in 1..Len(events) |-> events[i].sessionId])

\* getOldSessions that takes the age of the session's first event.
getOldSessionsByStart(events, maxAgeHours, t) ==
    LET cutoff == t - maxAgeHours * MsPerHour
        ids == SessionIdsOf(events)
        Old(sid) ==
            LET OfSession(e) == e.sessionId = sid
                sessionEvents == SelectSeq(events, OfSession)
            IN  sessionEvents[1].timestamp < cutoff
    IN  SelectSeq(ids, Old)

\* getOldSessions: the ids of the sessions whose last event is older than the cutoff
getOldSessions(events, maxAgeHours, t) ==
    LET cutoff == t - maxAgeHours * MsPerHour
        ids == SessionIdsOf(events)
        Old(sid) ==
            LET OfSession(e) == e.sessionId = sid
                sessionEvents == SelectSeq(events, OfSession)
            IN  sessionEvents[Len(sessionEvents)].timestamp < cutoff
    IN  SelectSeq(ids, Old)

\* the loop of compactOldSessions: [count, comp]
RECURSIVE CompactAll(_, _, _, _)
CompactAll(comp, files, sessions, t) ==
    IF sessions = <<>> THEN [count |-> 0, comp |-> comp]
    ELSE Once({Once({[count |-> (IF one.result THEN 1 ELSE 0) + rest.count,
                      comp |-> rest.comp]
                     : rest \in {CompactAll(one.comp, files, Tail(sessions), t)}})
               : one \in {compactSession(comp, files, Head(sessions), t)}})

----------------------------------------------------------------------------
(* ContextLoader (memory/loader.ts) *)

TriggeredMemoriesTokens == 1500
RecentAnchors == 5

LoaderStopwords ==
    {"the", "a", "an", "is", "are", "was", "were", "be", "been",
     "der", "die", "das", "ein", "eine", "ist", "sind", "war", "waren",
     "i", "you", "we", "they", "it", "ich", "du", "wir", "sie", "es",
     "to", "of", "in", "for", "on", "with", "at", "by", "from",
     "und", "oder", "aber", "wenn", "dann", "auch", "noch", "schon",
     "have", "has", "had", "do", "does", "did", "will", "would", "could",
     "this", "that", "these", "those", "what", "which", "who", "how"}

\* toLowerCase().split(/\s+/).map(w => w.replace(/[^a-z0-9...]/g, ''))
RECURSIVE SplitQuery(_, _)
SplitQuery(text, word) ==
    IF text = <<>> THEN <<word>>
    ELSE IF Head(text) \in Whitespace THEN <<word>> \o SplitQuery(Tail(text), "")
    ELSE IF IsWordAtom(Head(text))
         THEN SplitQuery(Tail(text), word \o ToLowerCase(Head(text)))
    ELSE SplitQuery(Tail(text), word)

KeepQueryWord(w) == Len(w) > 2 /\ w \notin LoaderStopwords

\* ContextLoader.extractKeywords
loaderExtractKeywords(message) == SelectSeq(SplitQuery(message.text, ""), KeepQueryWord)

\* estimateTokens: Math.ceil(text.length / 4)
estimateTokens(content) == (ContentLength(content) + 3) \div 4

\* Math.exp(-ageDays / 30) in units of 1/10000, for whole days of age, and
\* between two days in steps of one minute.
DecayByDay == <<10000, 9672, 9355, 9048, 8752, 8465, 8187, 7919, 7659, 7408>>

decayFactor(ageMs) ==
    LET d == Min(ageMs \div MsPerDay, Len(DecayByDay) - 2)
        minutes == Min((ageMs - d * MsPerDay) \div MsPerMinute, 1440)
        hi == DecayByDay[d + 1]
        lo == DecayByDay[d + 2]
    IN  hi - ((hi - lo) * minutes) \div 1440

\* calculateEffectiveScore in units of 1/50000: baseScore * decayFactor *
\* (1 + 0.2 * accessCount); 5 when the id is not tracked
ScoreUnit == 5 * 10000

\* calculateEffectiveScore without the accessBoost.
calculateEffectiveScoreNoBoost(idx, eventId, t) ==
    IF eventId \notin DOMAIN idx.eventMeta THEN 5 * ScoreUnit
    ELSE LET meta == idx.eventMeta[eventId]
         IN  meta.baseScore * decayFactor(t - meta.createdAt) * 5

calculateEffectiveScore(idx, eventId, t) ==
    IF eventId \notin DOMAIN idx.eventMeta THEN 5 * ScoreUnit
    ELSE LET meta == idx.eventMeta[eventId]
         IN  meta.baseScore * decayFactor(t - meta.createdAt) * (5 + meta.accessCount)

\* calculateScore times 10 * 15 * ScoreUnit * keywords.length
calculateScore(idx, event, keywords, t) ==
    LET effectiveScore == calculateEffectiveScore(idx, event.id, t)
        Matches(k) == \E i \in 1..Len(event.keywords) :
                          StrIncludes(ToLowerCase(event.keywords[i]), ToLowerCase(k))
        matchCount == Len(SelectSeq(keywords, Matches))
    IN  7 * Min(effectiveScore, 15 * ScoreUnit) * Max(Len(keywords), 1)
        + 3 * matchCount * 15 * ScoreUnit

\* scored.sort((a, b) => b.score - a.score): stable, descending;
\* an element is <<event, score>>
RECURSIVE InsertByScore(_, _)
InsertByScore(sorted, x) ==
    IF sorted = <<>> THEN <<x>>
    ELSE IF Head(sorted)[2] >= x[2] THEN <<Head(sorted)>> \o InsertByScore(Tail(sorted), x)
    ELSE <<x>> \o sorted

\* The scored matches left in the order of the event log.
LeftUnsorted(s) == s

RECURSIVE SortByScore(_)
SortByScore(s) ==
    IF s = <<>> THEN <<>>
    ELSE Once({InsertByScore(sorted, s[Len(s)]) : sorted \in {SortByScore(SubSeq(s, 1, Len(s) - 1))}})

\* The budget loop that passes over a candidate that does not fit and goes on.
RECURSIVE TakeWithinBudgetSkipping(_, _)
TakeWithinBudgetSkipping(scored, tokenCount) ==
    IF scored = <<>> THEN <<>>
    ELSE LET eventTokens == estimateTokens(Head(scored)[1].content)
         IN  IF tokenCount + eventTokens > TriggeredMemoriesTokens
             THEN TakeWithinBudgetSkipping(Tail(scored), tokenCount)
             ELSE <<Head(scored)[1]>>
                  \o TakeWithinBudgetSkipping(Tail(scored), tokenCount + eventTokens)

\* The budget loop that tests the total before the candidate is added.
RECURSIVE TakeWithinBudgetLate(_, _)
TakeWithinBudgetLate(scored, tokenCount) ==
    IF scored = <<>> THEN <<>>
    ELSE IF tokenCount > TriggeredMemoriesTokens THEN <<>>
         ELSE <<Head(scored)[1]>>
              \o TakeWithinBudgetLate(Tail(scored),
                                      tokenCount + estimateTokens(Head(scored)[1].content))

\* the budget loop of loadTriggeredMemories: the accepted events
RECURSIVE TakeWithinBudget(_, _)
TakeWithinBudget(scored, tokenCount) ==
    IF scored = <<>> THEN <<>>
    ELSE LET eventTokens == estimateTokens(Head(scored)[1].content)
         IN  IF tokenCount + eventTokens > TriggeredMemoriesTokens THEN <<>>
             ELSE <<Head(scored)[1]>> \o TakeWithinBudget(Tail(scored), tokenCount + eventTokens)

RECURSIVE RecordAll(_, _, _)
RecordAll(idx, events, t) ==
    IF events = <<>> THEN idx
    ELSE Once({RecordAll(next, Tail(events), t)
               : next \in {recordAccess(idx, Head(events).id, t)}})

\* matches.map(e => ({event: e, score: this.calculateScore(e, keywords)}))
ScoreAll(idx, matches, keywords, t) ==
    [i \in 1..Len(matches) |-> <<matches[i], calculateScore(idx, matches[i], keywords, t)>>]

\* loadTriggeredMemories from the candidate ids on: [ok, scored, memories,
\* index]; scored are the matching events in the order of their scores,
\* memories the accepted ones
TriggeredOf(idx, events, candidateIds, keywords, t) ==
    Once({Once({Once({
        [ok |-> TRUE,
         scored |-> [i \in 1..Len(scored) |-> scored[i][1]],
         memories |-> result,
         index |-> RecordAll(idx, result, t)]
        : result \in {TakeWithinBudget(scored, 0)}})
        : scored \in {SortByScore(ScoreAll(idx, matches, keywords, t))}})
        : matches \in {SelectSeq(events, LAMBDA e : e.id \in candidateIds)}})

\* loadTriggeredMemories that takes every event of the log as a match.
loadTriggeredMemoriesAll(idx, files, keywords, t) ==
    IF Len(keywords) = 0
    THEN [ok |-> TRUE, scored |-> <<>>, memories |-> <<>>, index |-> idx]
    ELSE Once({
        IF ~r.ok THEN [ok |-> FALSE, scored |-> <<>>, memories |-> <<>>, index |-> idx]
        ELSE TriggeredOf(idx, r.events, {e.id : e \in SeqToSet(r.events)}, keywords, t)
        : r \in {getEvents(files)}})

\* loadTriggeredMemories: [ok, scored, memories, index]
loadTriggeredMemories(idx, files, keywords, t) ==
    IF Len(keywords) = 0
    THEN [ok |-> TRUE, scored |-> <<>>, memories |-> <<>>, index |-> idx]
    ELSE Once({
        IF ~r.ok THEN [ok |-> FALSE, scored |-> <<>>, memories |-> <<>>, index |-> idx]
        ELSE TriggeredOf(idx, r.events, SeqToSet(eventIds), keywords, t)
        : r \in {getEvents(files)}, eventIds \in {lookup(idx, keywords)}})

\* the loop of loadRecentAnchors over the anchor ids; r is what getEvents() returns
RecentAnchorsOf(anchorIds, r) ==
    LET Found(id) == \E i \in 1..Len(r.events) : r.events[i].id = id
        First(id) == r.events[CHOOSE i \in 1..Len(r.events) :
                         /\ r.events[i].id = id
                         /\ \A j \in 1..(i - 1) : r.events[j].id # id]
        IsAnchorEvent(id) == Found(id) /\ First(id).type = "anchor"
        ids == SelectSeq(anchorIds, IsAnchorEvent)
    IN  IF Len(anchorIds) > 0 /\ ~r.ok THEN [ok |-> FALSE, summaries |-> <<>>]
        ELSE [ok |-> TRUE, summaries |-> [i \in 1..Len(ids) |-> First(ids[i]).content]]

\* loadRecentAnchors: [ok, summaries]
loadRecentAnchors(idx, files, n) ==
    Once({RecentAnchorsOf(anchorIds, r)
          : anchorIds \in {getAnchors(idx, n)}, r \in {getEvents(files)}})

\* The length of the string buildContext returns.  DEFAULT_CONFIG.maxTokens
\* is the overall budget; no line of the loader reads it.
MaxTokens == 2500

\* new Date(timestamp).toLocaleDateString() in the locale en-US: "M/D/YYYY"
LocaleDateLength(t) ==
    LET p == DateParts(t)
    IN  Len(Digits(p[2])) + 1 + Len(Digits(p[3])) + 1 + 4

\* formatEvent: '[' + date + '] ' + event.content
FormatEventLength(event) == 1 + LocaleDateLength(event.timestamp) + 2 + ContentLength(event.content)

RECURSIVE SumOf(_)
SumOf(lengths) == IF lengths = <<>> THEN 0 ELSE Head(lengths) + SumOf(Tail(lengths))

\* strings.join(sep): the length of the result
JoinLength(lengths, sep) == SumOf(lengths) + (IF Len(lengths) > 0 THEN (Len(lengths) - 1) * sep ELSE 0)

\* parts.join('\n\n---\n\n') of buildContext, for the summaries of
\* loadRecentAnchors and the events loadTriggeredMemories accepted
ContextLength(anchors, memories) ==
    LET recent == Len("## Recent Sessions") + 1
                  + JoinLength([i \in 1..Len(anchors) |-> 2 + ContentLength(anchors[i])], 1)
        relevant == Len("## Relevant Memories") + 1
                    + JoinLength([i \in 1..Len(memories) |-> FormatEventLength(memories[i])], 2)
    IN  JoinLength((IF Len(anchors) > 0 THEN <<recent>> ELSE <<>>)
                   \o (IF Len(memories) > 0 THEN <<relevant>> ELSE <<>>), 7)

----------------------------------------------------------------------------
(* ContextLoader with semantic search (the later memory/loader.ts) and      *)
(* memory/embeddings.ts.  A vector is a sequence of integers.  While         *)
(* getSemanticCandidates awaits embed(), the call is [message, keywords,     *)
(* anchors, events, response]; the response is what fetch has delivered.     *)

TopK == 20                      \* findSimilar(queryVector, 20)
NoResponse == <<>>              \* fetch has not settled
ErrorResponse == <<"error">>    \* fetch rejected, or the response is not ok

RECURSIVE DotProduct(_, _)
DotProduct(a, b) ==
    IF a = <<>> THEN 0 ELSE Head(a) * Head(b) + DotProduct(Tail(a), Tail(b))

\* cosineSimilarity(a, b) > 0.5, without the square root:
\* dot / (sqrt(normA) * sqrt(normB)) > 1/2  iff  dot > 0 and 4 dot^2 > normA normB
SimilarityOverHalf(a, b) ==
    IF Len(a) # Len(b) THEN FALSE
    ELSE LET dotProduct == DotProduct(a, b)
             normA == DotProduct(a, a)
             normB == DotProduct(b, b)
         IN  /\ normA * normB # 0
             /\ dotProduct > 0
             /\ 4 * dotProduct * dotProduct > normA * normB

\* findSimilar(queryVector, 20).filter(s => s.similarity > 0.5).map(s => s.eventId)
\* as a Set, for a store of at most TopK vectors (slice(0, 20) drops none)
SimilarIds(vecs, queryVector) ==
    {id \in DOMAIN vecs : SimilarityOverHalf(queryVector, vecs[id])}

\* loadVectors, for the document doc of vectors.json: the Map it leaves
loadVectors(doc) == IF doc = Unparseable THEN <<>> ELSE doc

\* The event whose vector the loop of getSemanticCandidates awaits (its place
\* in events), or 0 when every event has a vector and the query's is awaited.
Awaited(events, vecs) ==
    LET missing == {i \in 1..Len(events) : events[i].id \notin DOMAIN vecs}
    IN  IF missing = {} THEN 0 ELSE CHOOSE i \in missing : \A j \in missing : i <= j

----------------------------------------------------------------------------
(* MemoryManager: shortterm_memory.md of the dual-memory server              *)
(*                                                                          *)
(* The file is [data, content]: data is the front matter that gray-matter   *)
(* parses and stringifies, content the lines after it.  A line is [stamp,   *)
(* text]: text is its fixed part, stamp the dates and numbers printed in    *)
(* it.  No line of the front matter holds a section header, and the scans   *)
(* of addInsight and extractSection begin at a header, so they never act on *)
(* the front matter.  longterm_memory.md is never read back by the server's *)
(* counting and is left out.                                                *)

Line(text) == [stamp |-> <<>>, text |-> text]
Blank == Line("")
Rule == Line("---")

Sections == {"NOW", "RECENT", "ACTIVE", "NEXT", "INSIGHTS"}

\* the header lines that buildShorttermContent writes
Title ==
    [s \in Sections |->
        CASE s = "NOW" -> "## [NOW] CURRENT FOCUS"
          [] s = "RECENT" -> "## [RECENT] LAST SESSIONS"
          [] s = "ACTIVE" -> "## [ACTIVE] OPEN QUESTIONS & TASKS"
          [] s = "NEXT" -> "## [NEXT] IMMEDIATE STEPS"
          [] s = "INSIGHTS" -> "## [INSIGHTS] WAITING FOR COMPACTION"]

\* line.includes(`## [${section}]`), line.startsWith('## ') and
\* line.startsWith('---') over the lines of the model; a stamped line begins
\* with "**[" or "Last compaction:".
IncludesHeader(line, section) == line.stamp = <<>> /\ line.text = Title[section]
StartsWithHeading(line) ==
    line.stamp = <<>> /\ line.text \in {Title[s] : s \in Sections} \cup {"## Later"}
StartsWithRule(line) == line.stamp = <<>> /\ line.text = "---"
EndsSection(line) == StartsWithHeading(line) \/ StartsWithRule(line)

First(S) == CHOOSE i \in S : \A j \in S : i <= j

\* String.prototype.trim() of joined lines: the blank lines at both ends go;
\* the empty string is the one blank line <<Blank>>.
trim(lines) ==
    LET kept == {i \in 1..Len(lines) : lines[i] # Blank}
    IN  IF kept = {} THEN <<Blank>>
        ELSE SubSeq(lines, First(kept), CHOOSE i \in kept : \A j \in kept : j <= i)

\* The position before which addInsight splices: the first line after the
\* header of the section that starts with '## ' or '---', else the end.
InsertIndex(lines, section) ==
    LET found == {i \in 1..Len(lines) : IncludesHeader(lines[i], section)}
    IN  IF found = {} THEN Len(lines) + 1
        ELSE LET ends == {j \in (First(found) + 1)..Len(lines) : EndsSection(lines[j])}
             IN  IF ends = {} THEN Len(lines) + 1 ELSE First(ends)

\* `\n**[${timestamp}]** (${importance}/10): ${content}\n`, content being a
\* string of one or more lines.
InsightLines(content, importance, t) ==
    <<Blank, [stamp |-> <<DateStr(t), importance>>, text |-> Head(content)]>>
        \o [i \in 1..(Len(content) - 1) |-> Line(content[i + 1])] \o <<Blank>>

\* addInsight, as the file it writes from the file it has read.
addInsight(file, content, importance, section, t) ==
    Once({[file EXCEPT !.content = SubSeq(file.content, 1, at - 1)
                                    \o InsightLines(content, importance, t)
                                    \o SubSeq(file.content, at, Len(file.content))] :
          at \in {InsertIndex(file.content, section)}})

\* extractSection: the lines after the header up to the first line that
\* starts with '## ' or '---', trimmed.
extractSection(lines, section) ==
    LET found == {i \in 1..Len(lines) : IncludesHeader(lines[i], section)}
    IN  IF found = {} THEN <<Blank>>
        ELSE LET ends == {j \in (First(found) + 1)..Len(lines) : EndsSection(lines[j])}
                 end == IF ends = {} THEN Len(lines) + 1 ELSE First(ends)
             IN  trim(SubSeq(lines, First(found) + 1, end - 1))

\* config.threshold (1..100, default 20)
Threshold == 3

buildShorttermContent(sections) ==
    <<Line("# Shortterm Memory"), Blank,
      [stamp |-> <<Threshold>>, text |-> "> Rolling window of recent activity. Resets every"],
      Blank, Rule, Blank,
      Line(Title["NOW"]), Blank>> \o sections.now \o <<Blank, Rule, Blank,
      Line(Title["RECENT"]), Blank>> \o sections.recent \o <<Blank, Rule, Blank,
      Line(Title["ACTIVE"]), Blank>> \o sections.active \o <<Blank, Rule, Blank,
      Line(Title["NEXT"]), Blank>> \o sections.next \o <<Blank, Rule, Blank,
      Line(Title["INSIGHTS"]), Blank>> \o sections.insights \o <<Blank, Rule, Blank,
      Line("**End of Shortterm Memory**")>>

\* createShorttermTemplate at the time t; lastCompaction is 'never'.
createShorttermTemplate(t) ==
    [data |-> [counter |-> 0, lastCompaction |-> NoTime, lastUpdate |-> t],
     content |-> buildShorttermContent([now |-> <<Line("No current focus set.")>>,
                                        active |-> <<Line("No active tasks.")>>,
                                        next |-> <<Line("No immediate steps.")>>,
                                        recent |-> <<Line("No recent sessions.")>>,
                                        insights |-> <<Line("No insights yet.")>>])]

\* getMetadata(); the front matter of every file the server writes has a counter.
getMetadata(file) == file.data

\* An updateMetadata that merges nothing but lastUpdate.
updateMetadataLastUpdateOnly(file, value, t) ==
    [file EXCEPT !.data = [file.data EXCEPT !.lastUpdate = t]]

\* updateMetadata({counter: value}): the file it writes from the file it has read.
updateMetadata(file, value, t) ==
    [file EXCEPT !.data = [file.data EXCEPT !.counter = value, !.lastUpdate = t]]

\* `section || placeholder`: the empty string is falsy
OrElse(section, placeholder) == IF section = <<Blank>> THEN <<Line(placeholder)>> ELSE section

\* resetShortterm: the file it writes from the file it has read.
resetShortterm(file, t) ==
    [data |-> [file.data EXCEPT !.counter = 0, !.lastCompaction = t],
     content |-> buildShorttermContent(
        [now |-> OrElse(extractSection(file.content, "NOW"), "Current focus goes here."),
         active |-> OrElse(extractSection(file.content, "ACTIVE"), "Open tasks and questions."),
         next |-> OrElse(extractSection(file.content, "NEXT"), "Immediate next steps."),
         recent |-> <<[stamp |-> <<t>>, text |-> "Last compaction:"]>>,
         insights |-> <<Blank>>])]

----------------------------------------------------------------------------
(* Inputs *)

\* "Cat said\n\"hi\\\"": 14 characters, 4 tokens
ContentA == [text |-> <<"Cat", " ", "said", "\n", "\"", "hi", "\\", "\"">>, pad |-> 0]
\* "cat dog" and 2997 more characters: 3004 characters, 751 tokens
ContentB == [text |-> <<"cat", " ", "dog">>, pad |-> 2997]
\* "cat dog" and 5997 more characters: 6004 characters, 1501 tokens
ContentC == [text |-> <<"cat", " ", "dog">>, pad |-> 5997]
EmptyContent == [text |-> <<>>, pad |-> 0]
ContentOk == [text |-> <<"Ok">>, pad |-> 0]                 \* "Ok"
ContentBlank == [text |-> <<" ", "\n">>, pad |-> 0]         \* " \n"

\* "cat dog" and 5993 more characters: 6000 characters, 1500 tokens
ContentD == [text |-> <<"cat", " ", "dog">>, pad |-> 5993]
\* a message and a summary that a host stores as an anchor
ContextRequests == {<<"user", ContentA, 5>>, <<"anchor", ContentD, 8>>}
\* messages of emotionalWeight 0 and 8 (the field is documented as 0-10)
ScoreRequests == {<<"user", ContentA, 0>>, <<"user", ContentA, 8>>}
ContentE == [text |-> <<"cat", "-", "dog">>, pad |-> 0]       \* "cat-dog"
\* store <type> <content> of the CLI
StoreRequests == {<<"user", ContentA>>, <<"assistant", ContentB>>}
OneStoreRequest == {<<"user", ContentA>>}
\* a message, an acknowledgment, whitespace and the empty string
GateRequests == {<<"user", ContentA>>, <<"user", ContentOk>>, <<"user", ContentBlank>>,
                 <<"user", EmptyContent>>}
\* a short message and one that alone is over the budget of the loader
BudgetRequests == {<<"user", ContentA>>, <<"user", ContentC>>}
\* a message stored by a host: type, content, emotionalWeight
EventRequests == {<<"user", ContentA, 8>>, <<"insight", ContentB, 5>>}
AnchorRequests == {<<"user", ContentA, 8>>}
Randoms == {1, 2}       \* values of Math.random()
\* buildContext(currentMessage): "Cat?", "fish", ""
Queries == {[text |-> <<"Cat", "?">>, pad |-> 0], [text |-> <<"fish">>, pad |-> 0], EmptyContent}
OneQuery == {[text |-> <<"Cat", "?">>, pad |-> 0]}
MaxAgeHours == {0, 24}  \* compactOldSessions(maxAgeHours)
Tones == {""}           \* endSession(emotionalTone?): not given
Vectors == {<<1, 0>>, <<0, 1>>}     \* what the embedding provider answers with

----------------------------------------------------------------------------
(* State *)

RECURSIVE CountEvents(_, _)
CountEvents(files, names) ==
    IF names = {} THEN 0
    ELSE LET n == CHOOSE x \in names : TRUE
         IN  Len(files[n].metas) + CountEvents(files, names \ {n})

EventCount == CountEvents(eventFiles, DOMAIN eventFiles)

\* The log holds fewer than n events: the calls that append are bounded by it.
LogBelow(n) == EventCount < n

\* the log as getEvents() returns it
Log == getEvents(eventFiles).events

\* the store commands that run side by side, none of them started yet
Processes == {1, 2}
NoStore == [pc |-> "none"]

\* the tool calls of the dual-memory server, none of them made yet
Calls == 1..MaxCalls
NoHandler == [pc |-> "none"]

Init ==
    /\ now = StartTime
    /\ ticks = 0
    /\ eventFiles = <<>>
    /\ appended = <<>>
    /\ sessionFile = <<>>
    /\ index = EmptyIndex
    /\ currentSessionId = NoSession
    /\ compacted = <<>>
    /\ vectors = <<>>
    /\ call = NoCall
    /\ shortterm = createShorttermTemplate(StartTime)
    /\ counter = [value |-> 0, loaded |-> FALSE]
    /\ calls = [p \in Calls |-> NoHandler]
    /\ stores = [p \in Processes |-> NoStore]
    /\ last = [op |-> "init"]

\* Time passes between two calls.
Tick(dt) ==
    /\ now' = now + dt
    /\ ticks' = ticks + 1
    /\ last' = [op |-> "tick"]
    /\ UNCHANGED <<server, stores, eventFiles, appended, sessionFile, index, currentSessionId, compacted, vectors, call>>

\* store (cli.ts): `memory-buddy store <type> <content>`
Store(type, content, random1, random2) ==
    /\ IF ContentLength(content) = 0
       THEN /\ last' = [op |-> "store", stored |-> FALSE]
            /\ UNCHANGED <<eventFiles, appended, sessionFile, index>>
       ELSE \E s \in {getSessionId(sessionFile, now, random1)} :
            \E a \in {appendEvent(eventFiles,
                                  [sessionId |-> s.sessionId,
                                   type |-> IF type = "assistant" THEN "assistant" ELSE "user",
                                   content |-> content,
                                   keywords |-> extractKeywords(content),
                                   emotionalWeight |-> 5],
                                  now, random2)} :
                /\ sessionFile' = s.file
                /\ eventFiles' = a.files
                /\ appended' = Append(appended, a.event)
                /\ index' = addToIndex(index, a.event)
                /\ last' = [op |-> "store", stored |-> TRUE, event |-> a.event]
    /\ UNCHANGED <<server, stores, now, ticks, currentSessionId, compacted, vectors, call>>

\* A host of the library stores a message in the Compactor's session:
\* appendEvent, then addToIndex, as store does.
StoreEvent(type, content, weight, random) ==
    /\ currentSessionId # NoSession
    /\ \E a \in {appendEvent(eventFiles,
                              [sessionId |-> currentSessionId,
                               type |-> type,
                               content |-> content,
                               keywords |-> extractKeywords(content),
                               emotionalWeight |-> weight],
                              now, random)} :
           /\ eventFiles' = a.files
           /\ appended' = Append(appended, a.event)
           /\ index' = addToIndex(index, a.event)
           /\ last' = [op |-> "storeEvent", stored |-> TRUE, event |-> a.event]
    /\ UNCHANGED <<server, stores, now, ticks, sessionFile, currentSessionId, compacted, vectors, call>>

StartSession ==
    /\ currentSessionId' = generateSessionId(now)
    /\ last' = [op |-> "startSession", sessionId |-> generateSessionId(now)]
    /\ UNCHANGED <<server, stores, now, ticks, eventFiles, appended, sessionFile, index, compacted, vectors, call>>

\* endSession without its first line: getEvents(null) returns every event.
EndSessionUnguarded(tone, random) ==
    /\ \E r \in {IF currentSessionId = NoSession THEN getEvents(eventFiles)
                  ELSE getSessionEvents(eventFiles, currentSessionId)} :
       IF ~r.ok
       THEN /\ last' = [op |-> "endSession", result |-> "threw"]
            /\ UNCHANGED <<eventFiles, appended, index, currentSessionId>>
       ELSE IF Len(r.events) = 0
       THEN /\ last' = [op |-> "endSession", result |-> "no events"]
            /\ UNCHANGED <<eventFiles, appended, index, currentSessionId>>
       ELSE \E summary \in {createSessionSummary(r.events)} :
            \E a \in {appendEvent(eventFiles,
                                  [sessionId |-> currentSessionId,
                                   type |-> "anchor",
                                   content |-> summary,
                                   keywords |-> extractTopKeywords(r.events),
                                   emotionalWeight |-> calculateSessionEmotionalWeight(r.events)],
                                  now, random)} :
                /\ eventFiles' = a.files
                /\ appended' = Append(appended, a.event)
                /\ index' = updateSessionSummary(index, currentSessionId, summary, tone)
                /\ currentSessionId' = NoSession
                /\ last' = [op |-> "endSession", result |-> "ended", event |-> a.event,
                            summary |-> summary]
    /\ UNCHANGED <<server, stores, now, ticks, sessionFile, compacted, vectors, call>>

EndSession(tone, random) ==
    /\ \E r \in {getSessionEvents(eventFiles, currentSessionId)} :
       IF currentSessionId = NoSession
       THEN /\ last' = [op |-> "endSession", result |-> "no session"]
            /\ UNCHANGED <<eventFiles, appended, index, currentSessionId>>
       ELSE IF ~r.ok
       THEN /\ last' = [op |-> "endSession", result |-> "threw"]
            /\ UNCHANGED <<eventFiles, appended, index, currentSessionId>>
       ELSE IF Len(r.events) = 0
       THEN /\ last' = [op |-> "endSession", result |-> "no events"]
            /\ UNCHANGED <<eventFiles, appended, index, currentSessionId>>
       ELSE \E summary \in {createSessionSummary(r.events)} :
            \E a \in {appendEvent(eventFiles,
                                  [sessionId |-> currentSessionId,
                                   type |-> "anchor",
                                   content |-> summary,
                                   keywords |-> extractTopKeywords(r.events),
                                   emotionalWeight |-> calculateSessionEmotionalWeight(r.events)],
                                  now, random)} :
                /\ eventFiles' = a.files
                /\ appended' = Append(appended, a.event)
                /\ index' = updateSessionSummary(index, currentSessionId, summary, tone)
                /\ currentSessionId' = NoSession
                /\ last' = [op |-> "endSession", result |-> "ended", event |-> a.event,
                            summary |-> summary]
    /\ UNCHANGED <<server, stores, now, ticks, sessionFile, compacted, vectors, call>>

\* compactSession(sessionId)
CompactSession(sessionId) ==
    /\ \E c \in {compactSession(compacted, eventFiles, sessionId, now)} :
           /\ compacted' = c.comp
           /\ last' = [op |-> "compactSession", sessionId |-> sessionId, result |-> c.result]
    /\ UNCHANGED <<server, stores, now, ticks, eventFiles, appended, sessionFile, index, currentSessionId, vectors, call>>

\* compactOldSessions(maxAgeHours)
CompactOldSessions(maxAgeHours) ==
    /\ \E r \in {getEvents(eventFiles)} :
           IF ~r.ok
           THEN /\ last' = [op |-> "compactOldSessions", maxAgeHours |-> maxAgeHours,
                            threw |-> TRUE, result |-> 0]
                /\ UNCHANGED compacted
           ELSE \E sessions \in {getOldSessions(r.events, maxAgeHours, now)} :
                \E c \in {CompactAll(compacted, eventFiles, sessions, now)} :
                    /\ compacted' = c.comp
                    /\ last' = [op |-> "compactOldSessions", maxAgeHours |-> maxAgeHours,
                                threw |-> FALSE, result |-> c.count]
    /\ UNCHANGED <<server, stores, now, ticks, eventFiles, appended, sessionFile, index, currentSessionId, vectors, call>>

\* A monthly archive is left unparseable (a write cut short, a damaged disk).
CorruptArchive(monthKey) ==
    /\ monthKey \in DOMAIN compacted
    /\ compacted[monthKey].ok
    /\ compacted' = [compacted EXCEPT ![monthKey] = [ok |-> FALSE, sessions |-> <<>>]]
    /\ last' = [op |-> "corruptArchive"]
    /\ UNCHANGED <<server, stores, now, ticks, eventFiles, appended, sessionFile, index, currentSessionId, vectors, call>>

\* The process is interrupted inside appendFileSync of appendEvent: only the
\* first `cut` characters of the line reach the day's file, and the call does
\* not return.
TornAppend(type, content, cut, random) ==
    /\ \E s \in {getSessionId(sessionFile, now, 1)} :
       \E a \in {appendEvent(eventFiles,
                             [sessionId |-> s.sessionId,
                              type |-> type,
                              content |-> content,
                              keywords |-> extractKeywords(content),
                              emotionalWeight |-> 5],
                             now, random)} :
       \E filePath \in {getFilePath(now)} :
       \E old \in {IF filePath \in DOMAIN eventFiles THEN eventFiles[filePath] ELSE EmptyFile} :
       \E line \in {Stringify(content.text) \o <<"\n">>} :
           /\ cut \in 1..(Len(line) - 2)
           /\ sessionFile' = s.file
           /\ eventFiles' = Put(eventFiles, filePath,
                                [chars |-> old.chars \o SubSeq(line, 1, cut),
                                 metas |-> a.files[filePath].metas])
           /\ last' = [op |-> "tornAppend", cut |-> cut]
    /\ UNCHANGED <<server, stores, now, ticks, appended, index, currentSessionId, compacted, vectors, call>>

\* index.json is left unparseable (a write cut short, a damaged disk).
CorruptIndex ==
    /\ index # Unparseable
    /\ index' = Unparseable
    /\ last' = [op |-> "corruptIndex"]
    /\ UNCHANGED <<server, stores, now, ticks, eventFiles, appended, sessionFile, currentSessionId, compacted,
                   vectors, call>>

\* vectors.json is left unparseable.
CorruptVectors ==
    /\ vectors # Unparseable
    /\ vectors' = Unparseable
    /\ last' = [op |-> "corruptVectors"]
    /\ UNCHANGED <<server, stores, now, ticks, eventFiles, appended, sessionFile, index, currentSessionId,
                   compacted, call>>

\* `memory-buddy store <type> <content>` as the process it is: getSessionId,
\* then new IndexService (loadIndex) outside the try, then appendEvent and
\* addToIndex.
StoreCommand(type, content, random1, random2) ==
    /\ ContentLength(content) # 0
    /\ \E s \in {getSessionId(sessionFile, now, random1)} :
       \E loaded \in {loadIndex(index)} :
           /\ sessionFile' = s.file
           /\ IF ~loaded.ok
              THEN /\ last' = [op |-> "storeCommand", unparseable |-> TRUE, threw |-> TRUE]
                   /\ UNCHANGED <<eventFiles, appended, index>>
              ELSE \E a \in {appendEvent(eventFiles,
                                         [sessionId |-> s.sessionId,
                                          type |-> IF type = "assistant" THEN "assistant"
                                                   ELSE "user",
                                          content |-> content,
                                          keywords |-> extractKeywords(content),
                                          emotionalWeight |-> 5],
                                         now, random2)} :
                       /\ eventFiles' = a.files
                       /\ appended' = Append(appended, a.event)
                       /\ index' = addToIndex(loaded.index, a.event)
                       /\ last' = [op |-> "storeCommand", unparseable |-> FALSE,
                                   threw |-> FALSE, event |-> a.event]
    /\ UNCHANGED <<server, stores, now, ticks, currentSessionId, compacted, vectors, call>>

\* new VectorStore(): loadVectors
LoadVectors ==
    /\ vectors' = loadVectors(vectors)
    /\ last' = [op |-> "loadVectors", unparseable |-> vectors = Unparseable]
    /\ UNCHANGED <<server, stores, now, ticks, eventFiles, appended, sessionFile, index, currentSessionId,
                   compacted, call>>

\* VectorStore.store(eventId, vector) on a store that has been constructed
StoreVector(eventId, vector) ==
    /\ vectors # Unparseable
    /\ vectors' = Put(vectors, eventId, vector)
    /\ last' = [op |-> "storeVector", eventId |-> eventId]
    /\ UNCHANGED <<server, stores, now, ticks, eventFiles, appended, sessionFile, index, currentSessionId,
                   compacted, call>>

\* fs.writeFileSync(path, data) of a process that is interrupted: the file is
\* opened with O_TRUNC and then written, so it is left as it was (interrupted
\* before the open), empty or with a part of data (during the write), or with
\* all of data (after it).
WritePoints == {"before", "during", "after"}

Written(point, old, torn, new) ==
    CASE point = "before" -> old
      [] point = "during" -> torn
      [] point = "after" -> new

\* store, interrupted in the saveIndex of addToIndex
StoreInterrupted(type, content, random1, random2, point) ==
    /\ ContentLength(content) # 0
    /\ loadIndex(index).ok
    /\ \E s \in {getSessionId(sessionFile, now, random1)} :
       \E a \in {appendEvent(eventFiles,
                             [sessionId |-> s.sessionId,
                              type |-> IF type = "assistant" THEN "assistant" ELSE "user",
                              content |-> content,
                              keywords |-> extractKeywords(content),
                              emotionalWeight |-> 5],
                             now, random2)} :
       \E new \in {addToIndex(index, a.event)} :
           /\ sessionFile' = s.file
           /\ eventFiles' = a.files
           /\ appended' = Append(appended, a.event)
           /\ index' = Written(point, index, Unparseable, new)
           /\ last' = [op |-> "interrupted", file |-> "index", complete |-> {index, new}]
    /\ UNCHANGED <<server, stores, now, ticks, currentSessionId, compacted, vectors, call>>

\* compactSession(sessionId), interrupted in the writeFileSync of
\* saveCompactedSession
CompactInterrupted(sessionId, point) ==
    /\ \E c \in {compactSession(compacted, eventFiles, sessionId, now)} :
       \E monthKey \in DOMAIN c.comp :
           /\ c.result
           /\ IF monthKey \in DOMAIN compacted
              THEN compacted[monthKey] # c.comp[monthKey] ELSE TRUE
           /\ compacted' = Written(point, compacted,
                                   Put(compacted, monthKey, [ok |-> FALSE, sessions |-> <<>>]),
                                   c.comp)
           /\ last' = [op |-> "interrupted", file |-> "archive",
                       complete |-> {compacted, c.comp}]
    /\ UNCHANGED <<server, stores, now, ticks, eventFiles, appended, sessionFile, index, currentSessionId,
                   vectors, call>>

\* VectorStore.store(eventId, vector), interrupted in saveVectors
StoreVectorInterrupted(eventId, vector, point) ==
    /\ vectors # Unparseable
    /\ \E new \in {Put(vectors, eventId, vector)} :
           /\ vectors' = Written(point, vectors, Unparseable, new)
           /\ last' = [op |-> "interrupted", file |-> "vectors", complete |-> {vectors, new}]
    /\ UNCHANGED <<server, stores, now, ticks, eventFiles, appended, sessionFile, index, currentSessionId,
                   compacted, call>>

\* compact (cli.ts), the command of the SessionEnd hook: it deletes
\* current-session.txt.
CompactCommand ==
    /\ sessionFile' = <<>>
    /\ last' = [op |-> "compact",
                sessionId |-> IF sessionFile = <<>> THEN NoSession
                              ELSE sessionFile[1].sessionId]
    /\ UNCHANGED <<server, stores, now, ticks, eventFiles, appended, index, currentSessionId, compacted,
                   vectors, call>>

\* `memory-buddy store <type> <content>` in the process p, up to the end of
\* new IndexService(): getSessionId, then loadIndex.  saved are the processes
\* whose index update is on disk by then.
StoreLoad(p, type, content, random) ==
    /\ stores[p] = NoStore
    /\ ContentLength(content) # 0
    /\ \E s \in {getSessionId(sessionFile, now, random)} :
           /\ sessionFile' = s.file
           /\ stores' = [stores EXCEPT ![p] =
                   [pc |-> "append", sessionId |-> s.sessionId, index |-> loadIndex(index).index,
                    type |-> IF type = "assistant" THEN "assistant" ELSE "user",
                    content |-> content,
                    saved |-> {q \in Processes : stores[q].pc = "done"}]]
    /\ last' = [op |-> "storeLoad", process |-> p]
    /\ UNCHANGED <<server, now, ticks, eventFiles, appended, index, currentSessionId, compacted,
                   vectors, call>>

\* appendEvent in the process p
StoreAppend(p, random) ==
    /\ stores[p].pc = "append"
    /\ \E a \in {appendEvent(eventFiles,
                             [sessionId |-> stores[p].sessionId,
                              type |-> stores[p].type,
                              content |-> stores[p].content,
                              keywords |-> extractKeywords(stores[p].content),
                              emotionalWeight |-> 5],
                             now, random)} :
           /\ eventFiles' = a.files
           /\ appended' = Append(appended, a.event)
           /\ stores' = [stores EXCEPT ![p] =
                   [pc |-> "save", index |-> stores[p].index, event |-> a.event,
                    saved |-> stores[p].saved]]
    /\ last' = [op |-> "storeAppend", process |-> p]
    /\ UNCHANGED <<server, now, ticks, sessionFile, index, currentSessionId, compacted,
                   vectors, call>>

\* addToIndex in the process p: the event is added to the index that the
\* process has loaded, and saveIndex writes that index to index.json.
StoreSave(p) ==
    /\ stores[p].pc = "save"
    /\ index' = addToIndex(stores[p].index, stores[p].event)
    /\ stores' = [stores EXCEPT ![p] =
            [pc |-> "done", event |-> stores[p].event, saved |-> stores[p].saved]]
    /\ last' = [op |-> "storeSave", process |-> p]
    /\ UNCHANGED <<server, now, ticks, eventFiles, appended, sessionFile, currentSessionId,
                   compacted, vectors, call>>

\* current-session.txt is left without a readable timestamp (a write cut
\* short, an emptied file).
CorruptSessionFile ==
    /\ sessionFile # <<>>
    /\ sessionFile[1].timestamp # NaN
    /\ sessionFile' = <<[sessionId |-> sessionFile[1].sessionId, timestamp |-> NaN]>>
    /\ last' = [op |-> "corruptSessionFile"]
    /\ UNCHANGED <<server, stores, now, ticks, eventFiles, appended, index, currentSessionId, compacted,
                   vectors, call>>

\* buildContext(currentMessage)
BuildContext(message) ==
    /\ \A id \in DOMAIN index.eventMeta : index.eventMeta[id].accessCount < MaxAccess
    /\ \E anchors \in {loadRecentAnchors(index, eventFiles, RecentAnchors)} :
       \E keywords \in {loaderExtractKeywords(message)} :
       \E m \in {loadTriggeredMemories(index, eventFiles, keywords, now)} :
           IF ~anchors.ok
           THEN /\ last' = [op |-> "buildContext", threw |-> TRUE]
                /\ UNCHANGED index
           ELSE IF ContentLength(message) = 0
           THEN /\ last' = [op |-> "buildContext", threw |-> FALSE, message |-> message,
                            anchors |-> anchors.summaries, candidates |-> <<>>,
                            memories |-> <<>>]
                /\ UNCHANGED index
           ELSE IF ~m.ok
           THEN /\ last' = [op |-> "buildContext", threw |-> TRUE]
                /\ UNCHANGED index
           ELSE /\ last' = [op |-> "buildContext", threw |-> FALSE, message |-> message,
                            anchors |-> anchors.summaries, candidates |-> m.scored,
                            memories |-> m.memories]
                /\ index' = m.index
    /\ UNCHANGED <<server, stores, now, ticks, eventFiles, appended, sessionFile, currentSessionId, compacted, vectors, call>>

\* buildContext(currentMessage) with semantic search, up to the first await
\* of embed(): it returns at once when there is nothing to embed.
BeginContext(message) ==
    /\ call = NoCall
    /\ \A id \in DOMAIN index.eventMeta : index.eventMeta[id].accessCount < MaxAccess
    /\ \E anchors \in {loadRecentAnchors(index, eventFiles, RecentAnchors)} :
       \E r \in {getEvents(eventFiles)} :
           IF ~anchors.ok \/ (ContentLength(message) # 0 /\ ~r.ok)
           THEN /\ last' = [op |-> "buildContext", threw |-> TRUE]
                /\ UNCHANGED call
           ELSE IF ContentLength(message) = 0 \/ Len(r.events) = 0
           THEN /\ last' = [op |-> "buildContext", threw |-> FALSE, message |-> message,
                            anchors |-> anchors.summaries, candidates |-> <<>>,
                            memories |-> <<>>, embedFailed |-> FALSE]
                /\ UNCHANGED call
           ELSE /\ call' = [message |-> message,
                            keywords |-> loaderExtractKeywords(message),
                            anchors |-> anchors.summaries,
                            events |-> r.events,
                            response |-> NoResponse]
                /\ last' = [op |-> "embed"]
    /\ UNCHANGED <<server, stores, now, ticks, eventFiles, appended, sessionFile, index, currentSessionId,
                   compacted, vectors>>

\* The embedding provider answers the request with a vector.
ProviderAnswers(vector) ==
    /\ call # NoCall
    /\ call.response = NoResponse
    /\ call' = [call EXCEPT !.response = <<"ok", vector>>]
    /\ UNCHANGED <<server, stores, now, ticks, eventFiles, appended, sessionFile, index, currentSessionId,
                   compacted, vectors, last>>

\* The request fails: fetch rejects, or the response is not ok and embed throws.
ProviderFails ==
    /\ call # NoCall
    /\ call.response = NoResponse
    /\ call' = [call EXCEPT !.response = ErrorResponse]
    /\ UNCHANGED <<server, stores, now, ticks, eventFiles, appended, sessionFile, index, currentSessionId,
                   compacted, vectors, last>>

\* getSemanticCandidates goes on after embed(event.content): vectorStore.store,
\* then the next event without a vector, or the query.
ResumeEvent ==
    /\ call # NoCall
    /\ call.response # NoResponse
    /\ call.response # ErrorResponse
    /\ \E i \in {Awaited(call.events, vectors)} :
           /\ i # 0
           /\ vectors' = Put(vectors, call.events[i].id, call.response[2])
    /\ call' = [call EXCEPT !.response = NoResponse]
    /\ UNCHANGED <<server, stores, now, ticks, eventFiles, appended, sessionFile, index, currentSessionId,
                   compacted, last>>

\* getSemanticCandidates goes on after embed(query), and buildContext returns.
ResumeQuery ==
    /\ call # NoCall
    /\ call.response # NoResponse
    /\ call.response # ErrorResponse
    /\ Awaited(call.events, vectors) = 0
    /\ \E m \in {TriggeredOf(index, call.events, SimilarIds(vectors, call.response[2]),
                               call.keywords, now)} :
           /\ index' = m.index
           /\ last' = [op |-> "buildContext", threw |-> FALSE, message |-> call.message,
                       anchors |-> call.anchors, candidates |-> m.scored,
                       memories |-> m.memories, embedFailed |-> FALSE]
    /\ call' = NoCall
    /\ UNCHANGED <<server, stores, now, ticks, eventFiles, appended, sessionFile, currentSessionId,
                   compacted, vectors>>

\* The catch of getSemanticCandidates: the candidates are new Set(), and
\* buildContext returns.
ResumeFailed ==
    /\ call # NoCall
    /\ call.response = ErrorResponse
    /\ \E m \in {TriggeredOf(index, call.events, {}, call.keywords, now)} :
           /\ index' = m.index
           /\ last' = [op |-> "buildContext", threw |-> FALSE, message |-> call.message,
                       anchors |-> call.anchors, candidates |-> m.scored,
                       memories |-> m.memories, embedFailed |-> TRUE]
    /\ call' = NoCall
    /\ UNCHANGED <<server, stores, now, ticks, eventFiles, appended, sessionFile, currentSessionId,
                   compacted, vectors>>

\* IndexService.addToIndex(event), called for an event of the log
AddToIndex(event) ==
    /\ event.sessionId \in DOMAIN index.sessions =>
           index.sessions[event.sessionId].eventCount < MaxIndexed
    /\ index' = addToIndex(index, event)
    /\ last' = [op |-> "addToIndex", event |-> event]
    /\ UNCHANGED <<server, stores, now, ticks, eventFiles, appended, sessionFile, currentSessionId, compacted, vectors, call>>

----------------------------------------------------------------------------
(* MemoryServer: the tool calls of the dual-memory server                   *)
(*                                                                          *)
(* A handler runs until it awaits a file operation; an action performs that *)
(* operation and runs the handler on to its next one.  Calls handled one at *)
(* a time take the same steps without another call's steps in between.      *)

Tools == {"memory_read", "memory_update", "memory_compact", "memory_status"}

Request(name, content, importance, section, force) ==
    [name |-> name, content |-> content, importance |-> importance, section |-> section,
     force |-> force]

\* CallTool requests with the defaults of the handlers filled in (importance
\* = 5, section = 'INSIGHTS', force = false); memory_delete is no tool.
Requests ==
    {Request("memory_read", <<>>, 5, "INSIGHTS", FALSE),
     Request("memory_status", <<>>, 5, "INSIGHTS", FALSE),
     Request("memory_update", <<"fix the parser">>, 5, "INSIGHTS", FALSE),
     Request("memory_update", <<"plan:", "---", "ship it">>, 8, "NOW", FALSE),
     Request("memory_compact", <<>>, 5, "INSIGHTS", FALSE),
     Request("memory_compact", <<>>, 5, "INSIGHTS", TRUE),
     Request("memory_delete", <<>>, 5, "INSIGHTS", FALSE)}

NoSnapshot ==
    [data |-> [counter |-> 0, lastCompaction |-> NoTime, lastUpdate |-> NoTime],
     content |-> <<>>]


\* A handler at the start of its call: before is the persisted counter then.
Handler(request) ==
    [pc |-> "start", request |-> request, stage |-> "tool", ret |-> "", snap |-> NoSnapshot,
     c |-> 0, before |-> shortterm.data.counter, base |-> 0, inc |-> 0, compacted |-> FALSE,
     auto |-> FALSE, isError |-> FALSE]

InFlight(h) == h.pc \notin {"none", "done"}
Pending == {p \in DOMAIN calls : InFlight(calls[p])}

\* The handler returns: { content } or, from the catch, { content, isError: true }.
Return(h, isError) == [h EXCEPT !.pc = "done", !.isError = isError, !.snap = NoSnapshot]

\* Counter.increment() after load(): this.value += 1, and updateMetadata is
\* called with the new value; <<handler, counter>>.
Increment(h, ctr) ==
    <<[h EXCEPT !.pc = "updateMetadata.read", !.ret = "increment", !.c = ctr.value + 1,
                !.inc = ctr.value + 1],
      [ctr EXCEPT !.value = ctr.value + 1]>>

\* incrementAndCheckThreshold() up to its first file operation: base is the
\* persisted counter when the counting begins.
incrementAndCheckThreshold(h, ctr, file) ==
    LET tail == [h EXCEPT !.stage = "tail", !.base = file.data.counter]
    IN  IF ctr.loaded THEN Increment(tail, ctr)
        ELSE <<[tail EXCEPT !.pc = "load", !.ret = "increment"], ctr>>

\* handleMemoryCompact() after counter.getValue(): compaction, or the answer
\* that none is needed and then the counting.
handleMemoryCompact(h, ctr, file) ==
    IF ~h.request.force /\ ctr.value < Threshold
    THEN incrementAndCheckThreshold(h, ctr, file)
    ELSE <<[h EXCEPT !.pc = "resetShortterm.read"], ctr>>

\* The CallTool handler up to its first file operation.
CallTool(p, request) ==
    /\ calls[p] = NoHandler
    /\ \E h \in {Handler(request)} :
        \/ /\ request.name \notin Tools         \* default: throw new Error('Unknown tool')
           /\ calls' = [calls EXCEPT ![p] = Return(h, TRUE)]
           /\ last' = [op |-> "callTool", call |-> p, handler |-> Return(h, TRUE)]
           /\ UNCHANGED counter
        \/ /\ request.name = "memory_read"
           /\ calls' = [calls EXCEPT ![p] = [h EXCEPT !.pc = "read"]]
           /\ last' = [op |-> "await", call |-> p]
           /\ UNCHANGED counter
        \/ /\ request.name = "memory_update"
           /\ calls' = [calls EXCEPT ![p] = [h EXCEPT !.pc = "addInsight.read"]]
           /\ last' = [op |-> "await", call |-> p]
           /\ UNCHANGED counter
        \/ /\ request.name = "memory_status"
           /\ calls' = [calls EXCEPT ![p] = IF counter.loaded THEN [h EXCEPT !.pc = "status"]
                                            ELSE [h EXCEPT !.pc = "load", !.ret = "status"]]
           /\ last' = [op |-> "await", call |-> p]
           /\ UNCHANGED counter
        \/ /\ request.name = "memory_compact"
           /\ \E next \in {IF counter.loaded THEN handleMemoryCompact(h, counter, shortterm)
                           ELSE <<[h EXCEPT !.pc = "load", !.ret = "compact"], counter>>} :
                /\ calls' = [calls EXCEPT ![p] = next[1]]
                /\ counter' = next[2]
           /\ last' = [op |-> "await", call |-> p]
    /\ UNCHANGED <<stores, now, ticks, eventFiles, appended, sessionFile, index, currentSessionId,
                   compacted, vectors, call, shortterm>>

\* Counter.load(): getMetadata() reads the file, then value and loaded are
\* set and the caller (increment or getValue) goes on.
Load(p) ==
    /\ calls[p].pc = "load"
    /\ \E h \in {calls[p]}, ctr \in {[value |-> getMetadata(shortterm).counter, loaded |-> TRUE]} :
       \E next \in {CASE h.ret = "increment" -> Increment(h, ctr)
                      [] h.ret = "status" -> <<[h EXCEPT !.pc = "status"], ctr>>
                      [] h.ret = "compact" -> handleMemoryCompact(h, ctr, shortterm)} :
            /\ calls' = [calls EXCEPT ![p] = next[1]]
            /\ counter' = next[2]
    /\ last' = [op |-> "await", call |-> p]
    /\ UNCHANGED <<stores, now, ticks, eventFiles, appended, sessionFile, index, currentSessionId,
                   compacted, vectors, call, shortterm>>

\* handleMemoryRead(): the files are read and the counting begins.
MemoryRead(p) ==
    /\ calls[p].pc = "read"
    /\ \E next \in {incrementAndCheckThreshold(calls[p], counter, shortterm)} :
            /\ calls' = [calls EXCEPT ![p] = next[1]]
            /\ counter' = next[2]
    /\ last' = [op |-> "await", call |-> p]
    /\ UNCHANGED <<stores, now, ticks, eventFiles, appended, sessionFile, index, currentSessionId,
                   compacted, vectors, call, shortterm>>

\* getStatus() after counter.getValue(): getMetadata() reads the file and the
\* counting begins.
MemoryStatus(p) ==
    /\ calls[p].pc = "status"
    /\ \E next \in {incrementAndCheckThreshold(calls[p], counter, shortterm)} :
            /\ calls' = [calls EXCEPT ![p] = next[1]]
            /\ counter' = next[2]
    /\ last' = [op |-> "await", call |-> p]
    /\ UNCHANGED <<stores, now, ticks, eventFiles, appended, sessionFile, index, currentSessionId,
                   compacted, vectors, call, shortterm>>

\* addInsight(): readShortterm().
AddInsightRead(p) ==
    /\ calls[p].pc = "addInsight.read"
    /\ calls' = [calls EXCEPT ![p] = [@ EXCEPT !.pc = "addInsight.write", !.snap = shortterm]]
    /\ last' = [op |-> "await", call |-> p]
    /\ UNCHANGED <<stores, now, ticks, eventFiles, appended, sessionFile, index, currentSessionId,
                   compacted, vectors, call, shortterm, counter>>

\* addInsight(): writeFile() of the lines read with the insight spliced in;
\* handleMemoryUpdate returns and the counting begins.
AddInsightWrite(p) ==
    /\ calls[p].pc = "addInsight.write"
    /\ \E h \in {calls[p]} :
       \E file \in {addInsight(h.snap, h.request.content, h.request.importance,
                               h.request.section, now)} :
       \E next \in {incrementAndCheckThreshold([h EXCEPT !.snap = NoSnapshot], counter, file)} :
            /\ shortterm' = file
            /\ calls' = [calls EXCEPT ![p] = next[1]]
            /\ counter' = next[2]
    /\ last' = [op |-> "await", call |-> p]
    /\ UNCHANGED <<stores, now, ticks, eventFiles, appended, sessionFile, index, currentSessionId,
                   compacted, vectors, call>>

\* updateMetadata(): readShortterm().
UpdateMetadataRead(p) ==
    /\ calls[p].pc = "updateMetadata.read"
    /\ calls' = [calls EXCEPT ![p] = [@ EXCEPT !.pc = "updateMetadata.write", !.snap = shortterm]]
    /\ last' = [op |-> "await", call |-> p]
    /\ UNCHANGED <<stores, now, ticks, eventFiles, appended, sessionFile, index, currentSessionId,
                   compacted, vectors, call, shortterm, counter>>

\* updateMetadata(): writeFile() of the file read with the counter merged in.
\* After increment(), getValue() is compared with the threshold; after the
\* reset() of handleMemoryCompact the counting begins; after the reset() of
\* incrementAndCheckThreshold the call returns.
UpdateMetadataWrite(p) ==
    /\ calls[p].pc = "updateMetadata.write"
    /\ \E h \in {[calls[p] EXCEPT !.snap = NoSnapshot]},
          file \in {updateMetadata(calls[p].snap, calls[p].c, now)} :
       \E next \in {CASE h.ret = "increment" /\ counter.value >= Threshold ->
                            <<[h EXCEPT !.pc = "resetShortterm.read"], counter>>
                      [] h.ret = "increment" /\ counter.value < Threshold ->
                            <<Return(h, FALSE), counter>>
                      [] h.ret = "reset" /\ h.stage = "tool" ->
                            incrementAndCheckThreshold(h, counter, file)
                      [] h.ret = "reset" /\ h.stage = "tail" ->
                            <<Return(h, FALSE), counter>>} :
            /\ shortterm' = file
            /\ calls' = [calls EXCEPT ![p] = next[1]]
            /\ counter' = next[2]
            /\ last' = IF next[1].pc = "done"
                       THEN [op |-> "callTool", call |-> p, handler |-> next[1]]
                       ELSE [op |-> "await", call |-> p]
    /\ UNCHANGED <<stores, now, ticks, eventFiles, appended, sessionFile, index, currentSessionId,
                   compacted, vectors, call>>

\* compactor.compact(), whose last step is the reset of the shortterm file:
\* resetShortterm() reads the file.
CompactRead(p) ==
    /\ calls[p].pc = "resetShortterm.read"
    /\ calls' = [calls EXCEPT ![p] = [@ EXCEPT !.pc = "resetShortterm.write", !.snap = shortterm]]
    /\ last' = [op |-> "await", call |-> p]
    /\ UNCHANGED <<stores, now, ticks, eventFiles, appended, sessionFile, index, currentSessionId,
                   compacted, vectors, call, shortterm, counter>>

\* resetShortterm() writes the fresh file; compact() returns and
\* counter.reset() sets value to 0 and calls updateMetadata({counter: 0}).
CompactWrite(p) ==
    /\ calls[p].pc = "resetShortterm.write"
    /\ shortterm' = resetShortterm(calls[p].snap, now)
    /\ calls' = [calls EXCEPT ![p] = [@ EXCEPT !.pc = "updateMetadata.read", !.ret = "reset",
                                               !.c = 0, !.compacted = TRUE,
                                               !.auto = (@ \/ calls[p].stage = "tail"),
                                               !.snap = NoSnapshot]]
    /\ counter' = [counter EXCEPT !.value = 0]
    /\ last' = [op |-> "resetShortterm", call |-> p, read |-> calls[p].snap]
    /\ UNCHANGED <<stores, now, ticks, eventFiles, appended, sessionFile, index, currentSessionId,
                   compacted, vectors, call>>

\* A catch that counts the failed call before it answers.
RejectedCounted(p) ==
    /\ InFlight(calls[p])
    /\ counter.loaded
    /\ \E h \in {Return([calls[p] EXCEPT !.inc = counter.value + 1], TRUE)} :
            /\ calls' = [calls EXCEPT ![p] = h]
            /\ last' = [op |-> "callTool", call |-> p, handler |-> h]
    /\ counter' = [counter EXCEPT !.value = @ + 1]
    /\ UNCHANGED <<stores, now, ticks, eventFiles, appended, sessionFile, index, currentSessionId,
                   compacted, vectors, call, shortterm>>

\* The file operation that a handler awaits is rejected (EACCES, ENOSPC, EIO):
\* the catch of the CallTool handler returns { isError: true }.
Rejected(p) ==
    /\ InFlight(calls[p])
    /\ calls' = [calls EXCEPT ![p] = Return(@, TRUE)]
    /\ last' = [op |-> "callTool", call |-> p, handler |-> Return(calls[p], TRUE)]
    /\ UNCHANGED <<stores, now, ticks, eventFiles, appended, sessionFile, index, currentSessionId,
                   compacted, vectors, call, shortterm, counter>>

\* The server process is started again: a new Counter, nothing loaded.
Restart ==
    /\ Pending = {}
    /\ counter.loaded
    /\ counter' = [value |-> 0, loaded |-> FALSE]
    /\ last' = [op |-> "restart"]
    /\ UNCHANGED <<stores, now, ticks, eventFiles, appended, sessionFile, index, currentSessionId,
                   compacted, vectors, call, shortterm, calls>>

\* IndexService.recordAccess(eventId)
RecordAccess(eventId) ==
    /\ \A id \in DOMAIN index.eventMeta : index.eventMeta[id].accessCount < MaxAccess
    /\ index' = recordAccess(index, eventId, now)
    /\ last' = [op |-> "recordAccess", eventId |-> eventId]
    /\ UNCHANGED <<server, stores, now, ticks, eventFiles, appended, sessionFile, currentSessionId, compacted, vectors, call>>

LogSet == SeqToSet(Log)
LogIds == {e.id : e \in LogSet}
LogSessions == {e.sessionId : e \in LogSet}
UnknownId == <<0, 0>>
UnknownSession == <<"t", 0, 0>>

----------------------------------------------------------------------------
(* Specifications *)

\* Every operation of the engine.
Next ==
    \/ ticks < MaxDays /\ Tick(MsPerDay)
    \/ \E q \in OneStoreRequest : LogBelow(MaxEvents) /\ Store(q[1], q[2], 1, 1)
    \/ \E q \in AnchorRequests : LogBelow(MaxEvents) /\ StoreEvent(q[1], q[2], q[3], 1)
    \/ StartSession
    \/ \E tone \in Tones : LogBelow(MaxEvents) /\ EndSession(tone, 1)
    \/ \E sid \in LogSessions : CompactSession(sid)
    \/ CompactOldSessions(0)
    \/ \E m \in OneQuery : BuildContext(m)

Spec == Init /\ [][Next]_vars

\* The event log under the CLI's store.
NextLog ==
    \/ \E dt \in TickSteps : ticks < MaxTicks /\ Tick(dt)
    \/ \E q \in StoreRequests, r \in Randoms : LogBelow(MaxLogEvents) /\ Store(q[1], q[2], 1, r)

SpecLog == Init /\ [][NextLog]_vars

\* The index under addToIndex and recordAccess.
NextIndex ==
    \/ StartSession
    \/ \E q \in EventRequests, r \in Randoms :
           LogBelow(MaxEvents) /\ StoreEvent(q[1], q[2], q[3], r)
    \/ \E e \in LogSet : AddToIndex(e)
    \/ \E id \in LogIds \cup {UnknownId} : RecordAccess(id)

SpecIndex == Init /\ [][NextIndex]_vars

\* Sessions of the Compactor and of the CLI.
NextSession ==
    \/ \E dt \in TickSteps : ticks < MaxTicks /\ Tick(dt)
    \/ \E q \in OneStoreRequest : LogBelow(MaxEvents) /\ Store(q[1], q[2], 1, 1)
    \/ \E q \in EventRequests : LogBelow(MaxEvents) /\ StoreEvent(q[1], q[2], q[3], 1)
    \/ StartSession
    \/ \E tone \in Tones : LogBelow(MaxEvents) /\ EndSession(tone, 1)

SpecSession == Init /\ [][NextSession]_vars

\* Compaction into the monthly archives.
NextCompact ==
    \/ \E dt \in TickSteps : ticks < MaxTicks /\ Tick(dt)
    \/ \E q \in OneStoreRequest : LogBelow(MaxEvents) /\ Store(q[1], q[2], 1, 1)
    \/ \E sid \in LogSessions \cup {UnknownSession} : CompactSession(sid)
    \/ \E h \in MaxAgeHours : CompactOldSessions(h)

SpecCompact == Init /\ [][NextCompact]_vars

\* Compaction with archives that may be damaged.
NextFault ==
    \/ NextCompact
    \/ \E m \in DOMAIN compacted : CorruptArchive(m)

SpecFault == Init /\ [][NextFault]_vars

\* Retrieval.
NextLoader ==
    \/ \E dt \in TickSteps : ticks < MaxTicks /\ Tick(dt)
    \/ \E q \in StoreRequests : LogBelow(MaxEvents) /\ Store(q[1], q[2], 1, 1)
    \/ \E m \in Queries : BuildContext(m)

SpecLoader == Init /\ [][NextLoader]_vars

\* Retrieval over messages of which one alone is over the budget.
NextBudget ==
    \/ \E dt \in TickSteps : ticks < MaxTicks /\ Tick(dt)
    \/ \E q \in BudgetRequests : LogBelow(MaxEvents) /\ Store(q[1], q[2], 1, 1)
    \/ \E m \in OneQuery : BuildContext(m)

SpecBudget == Init /\ [][NextBudget]_vars

\* The CLI's store with contents that are no messages.
NextGate ==
    \/ \E dt \in TickSteps : ticks < MaxTicks /\ Tick(dt)
    \/ \E q \in GateRequests : LogBelow(MaxEvents) /\ Store(q[1], q[2], 1, 1)

SpecGate == Init /\ [][NextGate]_vars

\* The event log when a write may be cut short.
Cuts == {1, 5}          \* characters of the line that reach the file

NextTorn ==
    \/ \E dt \in TickSteps : ticks < MaxTicks /\ Tick(dt)
    \/ \E q \in StoreRequests : LogBelow(MaxLogEvents) /\ Store(q[1], q[2], 1, 1)
    \/ \E q \in OneStoreRequest, cut \in Cuts :
           LogBelow(MaxLogEvents) /\ TornAppend(q[1], q[2], cut, 1)

SpecTorn == Init /\ [][NextTorn]_vars

\* The CLI's store and the vector store over documents that may be damaged.
NextDamage ==
    \/ \E dt \in TickSteps : ticks < MaxTicks /\ Tick(dt)
    \/ \E q \in OneStoreRequest : LogBelow(MaxEvents) /\ StoreCommand(q[1], q[2], 1, 1)
    \/ CorruptIndex
    \/ CorruptVectors
    \/ LoadVectors
    \/ \E id \in LogIds, v \in Vectors : StoreVector(id, v)

SpecDamage == Init /\ [][NextDamage]_vars

\* The writers of index.json, vectors.json and the monthly archives, in
\* processes that may be interrupted.
NextInterrupt ==
    \/ ticks < MaxDays /\ Tick(MsPerDay)
    \/ \E q \in OneStoreRequest : LogBelow(MaxEvents) /\ StoreCommand(q[1], q[2], 1, 1)
    \/ \E sid \in LogSessions : CompactSession(sid)
    \/ LoadVectors
    \/ \E id \in LogIds : StoreVector(id, <<1, 0>>)
    \/ \E q \in OneStoreRequest, pt \in WritePoints :
           LogBelow(MaxEvents) /\ StoreInterrupted(q[1], q[2], 1, 1, pt)
    \/ \E sid \in LogSessions, pt \in WritePoints : CompactInterrupted(sid, pt)
    \/ \E id \in LogIds, pt \in WritePoints : StoreVectorInterrupted(id, <<1, 0>>, pt)

SpecInterrupt == Init /\ [][NextInterrupt]_vars

\* Every operation that reads or writes the keyword map.
NextKeywords ==
    \/ NextIndex
    \/ \E tone \in Tones : LogBelow(MaxEvents) /\ EndSession(tone, 1)
    \/ \E m \in OneQuery : BuildContext(m)

SpecKeywords == Init /\ [][NextKeywords]_vars

\* Retrieval over a session with an anchor that a host has stored.
NextContext ==
    \/ \E dt \in TickSteps : ticks < MaxTicks /\ Tick(dt)
    \/ StartSession
    \/ \E q \in ContextRequests : LogBelow(MaxEvents) /\ StoreEvent(q[1], q[2], q[3], 1)
    \/ \E m \in OneQuery : BuildContext(m)

SpecContext == Init /\ [][NextContext]_vars

\* Scores of events of different weights as days pass and accesses are recorded.
NextScore ==
    \/ ticks < MaxDays /\ Tick(MsPerDay)
    \/ StartSession
    \/ \E q \in ScoreRequests : LogBelow(MaxEvents) /\ StoreEvent(q[1], q[2], q[3], 1)
    \/ \E id \in LogIds : RecordAccess(id)

SpecScore == Init /\ [][NextScore]_vars

\* Retrieval with a message that is also stored, and has a hyphen.
NextQuery ==
    \/ \E dt \in TickSteps : ticks < MaxTicks /\ Tick(dt)
    \/ \E c \in {ContentA, ContentE} : LogBelow(MaxEvents) /\ Store("user", c, 1, 1)
    \/ \E m \in OneQuery \cup {ContentE} : BuildContext(m)

SpecQuery == Init /\ [][NextQuery]_vars

\* The hooks of Claude Code: UserPromptSubmit runs store, SessionEnd runs compact.
NextHooks ==
    \/ \E dt \in TickSteps : ticks < MaxTicks /\ Tick(dt)
    \/ \E q \in StoreRequests : LogBelow(MaxEvents) /\ Store(q[1], q[2], 1, 1)
    \/ CompactCommand

SpecHooks == Init /\ [][NextHooks]_vars

\* store, in processes that may stop before, during or after the index update.
NextStop ==
    \/ \E dt \in TickSteps : ticks < MaxDays /\ Tick(dt)
    \/ \E q \in OneStoreRequest, r \in Randoms :
           LogBelow(MaxEvents) /\ StoreCommand(q[1], q[2], 1, r)
    \/ \E q \in OneStoreRequest, r \in Randoms, pt \in WritePoints :
           LogBelow(MaxEvents) /\ StoreInterrupted(q[1], q[2], 1, r, pt)

SpecStop == Init /\ [][NextStop]_vars

\* Two store commands in two processes on one memory directory.
NextTwoStores ==
    \/ \E dt \in TickSteps : ticks < MaxTicks /\ Tick(dt)
    \/ \E p \in Processes, q \in StoreRequests : StoreLoad(p, q[1], q[2], p)
    \/ \E p \in Processes : StoreAppend(p, p)
    \/ \E p \in Processes : StoreSave(p)

SpecTwoStores == Init /\ [][NextTwoStores]_vars

\* The commands of the CLI.  Each command is a process that a hook starts, so
\* the clock has advanced since the command before it: by a millisecond, by
\* one millisecond less than the session timeout, or by the timeout.
CliSteps == {1, SessionTimeoutMs - 1, SessionTimeoutMs}

NextCli ==
    \/ \E dt \in CliSteps : last.op # "tick" /\ ticks <= MaxTicks /\ Tick(dt)
    \/ \E q \in OneStoreRequest, r \in Randoms :
           last.op \in {"tick", "init"} /\ LogBelow(MaxLogEvents) /\ Store(q[1], q[2], r, r)
    \/ last.op = "tick" /\ CompactCommand
    \/ last.op = "tick" /\ CorruptSessionFile

SpecCli == Init /\ [][NextCli]_vars

\* The dual-memory server, its tool calls handled one at a time.
NextCall(p) == \A q \in Calls : calls[q] = NoHandler <=> q >= p

Step(p) ==
    \/ Load(p)
    \/ MemoryRead(p)
    \/ MemoryStatus(p)
    \/ AddInsightRead(p)
    \/ AddInsightWrite(p)
    \/ UpdateMetadataRead(p)
    \/ UpdateMetadataWrite(p)
    \/ CompactRead(p)
    \/ CompactWrite(p)

NextServer ==
    \/ \E p \in Calls, request \in Requests : Pending = {} /\ NextCall(p) /\ CallTool(p, request)
    \/ \E p \in Calls : Step(p)
    \/ Restart

SpecServer == Init /\ [][NextServer]_vars

\* The dual-memory server, its tool calls handled one at a time, on a disk
\* whose file operations can fail.
NextServerFault ==
    \/ \E p \in Calls, request \in Requests : Pending = {} /\ NextCall(p) /\ CallTool(p, request)
    \/ \E p \in Calls : Step(p)
    \/ \E p \in Calls : Rejected(p)

SpecServerFault == Init /\ [][NextServerFault]_vars

\* The dual-memory server with two tool calls in flight: the transport hands
\* the second request to the handler while the first awaits a file operation.
\* No compaction is asked for and the threshold is not reached.
TwoCalls == {1, 2}
Unforced == {request \in Requests : ~request.force}

NextConcurrent ==
    \/ \E p \in TwoCalls, request \in Unforced : NextCall(p) /\ CallTool(p, request)
    \/ \E p \in TwoCalls : Load(p)
    \/ \E p \in TwoCalls : MemoryRead(p)
    \/ \E p \in TwoCalls : MemoryStatus(p)
    \/ \E p \in TwoCalls : AddInsightRead(p)
    \/ \E p \in TwoCalls : AddInsightWrite(p)
    \/ \E p \in TwoCalls : UpdateMetadataRead(p)
    \/ \E p \in TwoCalls : UpdateMetadataWrite(p)

SpecConcurrent == Init /\ [][NextConcurrent]_vars

\* Retrieval with semantic search; one call at a time.
Idle == call = NoCall

Resume == ResumeEvent \/ ResumeQuery \/ ResumeFailed

NextSemantic ==
    \/ Idle /\ ticks < MaxDays /\ Tick(MsPerDay)
    \/ Idle /\ StartSession
    \/ \E q \in AnchorRequests : Idle /\ LogBelow(MaxEvents) /\ StoreEvent(q[1], q[2], q[3], 1)
    \/ \E tone \in Tones : Idle /\ LogBelow(MaxEvents) /\ EndSession(tone, 1)
    \/ \E m \in OneQuery : BeginContext(m)
    \/ \E v \in Vectors : ProviderAnswers(v)
    \/ ProviderFails
    \/ ResumeEvent
    \/ ResumeQuery
    \/ ResumeFailed

SpecSemantic == Init /\ [][NextSemantic]_vars

\* The event loop runs a continuation whose promise has settled; nothing
\* makes the provider settle one.
SpecSemanticLive == SpecSemantic /\ WF_vars(Resume)

----------------------------------------------------------------------------
(* Properties of the event log *)

IsPrefix(a, b) == Len(a) <= Len(b) /\ SubSeq(b, 1, Len(a)) = a

OfSession(events, sessionId) == SelectSeq(events, LAMBDA e : e.sessionId = sessionId)

SameDay(t1, t2) == t1 \div MsPerDay = t2 \div MsPerDay

\* C1: every event appended with appendEvent is read back by a later
\* getEvents() with content, sessionId, type, keywords and emotionalWeight
\* unchanged, and its id differs from the id of every other event of the log.
C1_ReadBackWithUniqueId ==
    \A i \in 1..Len(appended) :
        \E j \in 1..Len(Log) :
            /\ Log[j].id = appended[i].id
            /\ Log[j].content = appended[i].content
            /\ Log[j].sessionId = appended[i].sessionId
            /\ Log[j].type = appended[i].type
            /\ Log[j].keywords = appended[i].keywords
            /\ Log[j].emotionalWeight = appended[i].emotionalWeight
            /\ \A k \in 1..Len(Log) : k # j => Log[k].id # Log[j].id

\* C2: the log is append-only.  In every state getEvents() returns the
\* events appended so far, in the order of their appends, so that over every
\* call the events that were in the log are an unchanged prefix of the log
\* after it; buildContext, compactSession and compactOldSessions leave the
\* log and its files as they were.
C2_AppendOnly ==
    /\ [](Log = appended)
    /\ [][/\ IsPrefix(appended, appended')
          /\ last'.op \in {"buildContext", "compactSession", "compactOldSessions"}
                 => appended' = appended /\ eventFiles' = eventFiles]_vars

\* compactOldSessions has archived a session of a log of two events that
\* lie in the files of two days.
C2_Witness ==
    /\ last.op = "compactOldSessions"
    /\ last.result >= 1
    /\ Len(Log) = 2
    /\ Cardinality(DOMAIN eventFiles) = 2

\* C3: getEvents() returns the events in the order of their appends, also
\* when the appends fall on different calendar days, and getEvents(sessionId)
\* returns exactly the events of that session in the same relative order.
C3_AppendOrder ==
    /\ \E r \in {getEvents(eventFiles)} : r.ok /\ r.events = appended
    /\ \A sid \in {e.sessionId : e \in SeqToSet(appended)} \cup {UnknownSession} :
           \E r \in {getSessionEvents(eventFiles, sid)} :
               r.ok /\ r.events = OfSession(appended, sid)

\* Three appends on three days (30 September, 1 and 2 October), the first
\* two in one session and the third in another.
C3_Witness ==
    /\ Len(appended) = 3
    /\ Cardinality(DOMAIN eventFiles) = 3
    /\ appended[1].sessionId = appended[2].sessionId
    /\ appended[3].sessionId # appended[1].sessionId
    /\ ~SameDay(appended[1].timestamp, appended[2].timestamp)

----------------------------------------------------------------------------
(* Properties of the index *)

\* C4: for every event with emotionalWeight >= 7, after addToIndex has been
\* invoked for it one or more times, its id occurs in the anchors list
\* exactly once (every event of the log has been indexed when it was stored).
C4_AnchoredOnce ==
    \A e \in LogSet : e.emotionalWeight >= 7 => Occurrences(index.anchors, e.id) = 1

\* addToIndex has been invoked three times for the one event of the log,
\* an event of weight 8: once when it was stored and twice again.
C4_Witness ==
    /\ Len(Log) = 1
    /\ Log[1].emotionalWeight >= 7
    /\ last.op = "addToIndex"
    /\ last.event = Log[1]
    /\ index.sessions[Log[1].sessionId].eventCount = 3

\* C5: after any sequence of store, startSession and endSession, every event
\* of the log with emotionalWeight >= 7, the anchor events written by
\* endSession included, has its id in the anchors list of the index.
C5_HeavyEventsAnchored ==
    \A e \in LogSet : e.emotionalWeight >= 7 => Includes(index.anchors, e.id)

\* C6: over addToIndex and recordAccess the accessCount of an event id never
\* decreases from one state to the next.
C6_AccessCountMonotone ==
    [][\A id \in DOMAIN index.eventMeta :
           /\ id \in DOMAIN index'.eventMeta
           /\ index'.eventMeta[id].accessCount >= index.eventMeta[id].accessCount]_vars

----------------------------------------------------------------------------
(* Properties of compaction *)

\* the session ids of the entries of the readable monthly archives
ArchivedIds(comp) ==
    UNION {{comp[m].sessions[i].sessionId : i \in 1..Len(comp[m].sessions)} : m \in DOMAIN comp}

\* how many entries of the monthly archives carry the session id
ArchiveEntries(comp, sessionId) ==
    UNION {{<<m, i>> : i \in {j \in 1..Len(comp[m].sessions) :
                                   comp[m].sessions[j].sessionId = sessionId}} :
           m \in DOMAIN comp}

FirstEventOf(sessionId) == OfSession(appended, sessionId)[1]

LastEventOf(sessionId) ==
    LET events == OfSession(appended, sessionId)
    IN  events[Len(events)]

\* the sessions of the log whose last event is older than the cutoff and
\* that no monthly archive holds
Eligible(maxAgeHours) ==
    {sid \in LogSessions :
        /\ LastEventOf(sid).timestamp < now - maxAgeHours * MsPerHour
        /\ sid \notin ArchivedIds(compacted)}

\* C7: a session id is written to the monthly archives at most once: no
\* session id occurs in more than one entry across all monthly archives,
\* and a compactSession for a session that is already archived returns
\* false and writes nothing.
C7_ArchivedAtMostOnce ==
    /\ [](\A sid \in ArchivedIds(compacted) :
              Cardinality(ArchiveEntries(compacted, sid)) = 1)
    /\ [][(last'.op = "compactSession" /\ last'.sessionId \in ArchivedIds(compacted))
              => last'.result = FALSE /\ compacted' = compacted]_vars

\* compactSession has been called for a session that an archive holds.
C7_Witness ==
    /\ last.op = "compactSession"
    /\ last.result = FALSE
    /\ last.sessionId \in ArchivedIds(compacted)

C9_FailuresIsolated ==
    [][last'.op = "compactOldSessions" =>
          /\ ~last'.threw
          /\ \A sid \in Eligible(last'.maxAgeHours) :
                 LET m == MonthKey(FirstEventOf(sid).timestamp)
                 IN  (m \in DOMAIN compacted => compacted[m].ok)
                         => sid \in ArchivedIds(compacted')]_vars

----------------------------------------------------------------------------
(* Properties of retrieval *)

\* ceil(length / 4)
CeilQuarter(n) == IF n % 4 = 0 THEN n \div 4 ELSE n \div 4 + 1

RECURSIVE CostOf(_)
CostOf(events) ==
    IF events = <<>> THEN 0
    ELSE CeilQuarter(ContentLength(Head(events).content)) + CostOf(Tail(events))

\* C10: for every query and every log, the sum of the estimated token costs
\* ceil(length(content) / 4) of the memories that loadTriggeredMemories
\* returns is at most the triggered-memory budget of 1500.
C10_WithinBudget ==
    (last.op = "buildContext" /\ ~last.threw) => CostOf(last.memories) <= 1500

\* Two events of 751 tokens each match the query; one of them is returned.
C10_Witness ==
    /\ last.op = "buildContext"
    /\ ~last.threw
    /\ Len(last.memories) = 1
    /\ Len(Log) = 2
    /\ \A i \in 1..2 : /\ Includes(Log[i].keywords, "cat")
                        /\ CeilQuarter(ContentLength(Log[i].content)) = 751
    /\ Includes(loaderExtractKeywords(last.message), "cat")

\* C11: the accepted memories are a prefix of the candidates in score order:
\* the loader stops at the first candidate whose cost would push the running
\* total over the budget, and accepts no candidate ranked after it, even one
\* that would fit on its own.
C11_PrefixInScoreOrder ==
    (last.op = "buildContext" /\ ~last.threw) =>
        /\ IsPrefix(last.memories, last.candidates)
        /\ Len(last.memories) < Len(last.candidates) =>
               CostOf(last.memories)
                   + CeilQuarter(ContentLength(last.candidates[Len(last.memories) + 1].content))
               > 1500

\* The first candidate costs 1501 tokens and the second 4: none is accepted.
C11_Witness ==
    /\ last.op = "buildContext"
    /\ ~last.threw
    /\ Len(last.candidates) = 2
    /\ last.memories = <<>>
    /\ CeilQuarter(ContentLength(last.candidates[1].content)) = 1501
    /\ CeilQuarter(ContentLength(last.candidates[2].content)) = 4

\* eventMeta[id].accessCount; no access is on record for an id without eventMeta
AccessCountOf(idx, id) ==
    IF id \in DOMAIN idx.eventMeta THEN idx.eventMeta[id].accessCount ELSE 0

DistinctIds == \A i, j \in 1..Len(appended) : i # j => appended[i].id # appended[j].id

\* C12: after a buildContext call the accessCount of every event accepted
\* into the Relevant Memories is exactly one higher than before the call,
\* and that of every other event of the log is unchanged.  (Stated for a log
\* whose events have different ids; two events with one id are the case of C1.)
C12_AccessRecordedOnce ==
    [][(last'.op = "buildContext" /\ ~last'.threw /\ DistinctIds) =>
          \A e \in SeqToSet(appended) :
              AccessCountOf(index', e.id)
                  = AccessCountOf(index, e.id)
                        + (IF Includes(last'.memories, e) THEN 1 ELSE 0)]_vars

\* C13: when semantic search is configured and the embedding call fails (for
\* the query or for any event), buildContext still returns normally and its
\* triggered memories are the ones keyword lookup would have produced for
\* the query's keywords.
C13_FallsBackToKeywords ==
    (last.op = "buildContext" /\ ~last.threw /\ last.embedFailed) =>
        last.memories
            = loadTriggeredMemories(index, eventFiles,
                                    loaderExtractKeywords(last.message), now).memories

\* C14: buildContext eventually returns for every behaviour of the embedding
\* provider, including a provider that never answers a request.
C14_EventuallyReturns == (call # NoCall) ~> (call = NoCall)

----------------------------------------------------------------------------
(* Properties of sessions *)

IsAnchor(e) == e.type = "anchor"

\* C15: whenever endSession() is called while a session is active, the
\* Compactor has no active session when the call returns, whatever the
\* number of events stored for that session.
C15_EndsInNoSession ==
    (last.op = "endSession" /\ last.result \in {"ended", "no events"}) =>
        currentSessionId = NoSession

\* C16: endSession() on an active session that has at least one event
\* appends exactly one event, of type anchor, with that session's id and the
\* computed summary as content, and records the same summary in the
\* session's entry of the index's sessions map.
C16_AnchorAndSummary ==
    [][(/\ last'.op = "endSession"
        /\ currentSessionId # NoSession
        /\ OfSession(appended, currentSessionId) # <<>>) =>
          /\ Len(appended') = Len(appended) + 1
          /\ IsPrefix(appended, appended')
          /\ \E a \in {appended'[Len(appended')]} :
                 /\ a.type = "anchor"
                 /\ a.sessionId = currentSessionId
                 /\ a.content = createSessionSummary(OfSession(appended, currentSessionId))
                 /\ currentSessionId \in DOMAIN index'.sessions
                 /\ index'.sessions[currentSessionId].summary = a.content]_vars

\* A session of one message has been ended: the log ends with its anchor and
\* the index holds the summary.
C16_Witness ==
    /\ last.op = "endSession"
    /\ last.result = "ended"
    /\ Len(appended) = 2
    /\ appended[2].type = "anchor"
    /\ appended[1].sessionId = appended[2].sessionId
    /\ index.sessions[appended[2].sessionId].summary = appended[2].content

\* slice(-5)
LastFive(s) == IF Len(s) <= 5 THEN s ELSE SubSeq(s, Len(s) - 4, Len(s))

\* C17: after endSession has summarized a session, a following buildContext
\* lists that session's summary under "Recent Sessions", as long as it is
\* among the 5 most recent anchors.
C17_SummaryListed ==
    (last.op = "buildContext" /\ ~last.threw) =>
        \A e \in SeqToSet(LastFive(SelectSeq(appended, IsAnchor))) :
            Includes(last.anchors, e.content)

\* C18: startSession() never returns a session id that an earlier endSession
\* has already summarized.
C18_NeverReopened ==
    last.op = "startSession" =>
        ~\E e \in SeqToSet(appended) : IsAnchor(e) /\ e.sessionId = last.sessionId

\* C20: endSession() called when no session is active is a no-op: it appends
\* no event, changes neither the index nor the archives, and raises no error.
C20_NoSessionNoOp ==
    [][(last'.op = "endSession" /\ currentSessionId = NoSession) =>
          /\ last'.result = "no session"
          /\ UNCHANGED <<eventFiles, appended, index, compacted, currentSessionId>>]_vars

\* endSession() has been called with no active session and a log that is not empty.
C20_Witness ==
    /\ last.op = "endSession"
    /\ last.result = "no session"
    /\ Len(appended) >= 1
    /\ index # EmptyIndex

----------------------------------------------------------------------------
(* Properties of the CLI's store *)

\* C19: store is gated by shouldStore: a store request whose content
\* shouldStore rejects (empty or whitespace-only text, or a pure
\* acknowledgment) appends no event and leaves the event log and the index
\* unchanged, without raising an error.
C19_GatedByShouldStore ==
    (last.op = "store" /\ last.stored) => shouldStore(last.event.content)

----------------------------------------------------------------------------
(* Properties of damaged and interrupted files *)

\* the lines of a file that readFile parses
LinesOf(file) == SelectSeq(SplitLines(file.chars), NotBlank)

\* The last line of the file does not parse and every line before it does.
TornTail(file) ==
    \E lines \in {LinesOf(file)} :
        /\ Len(lines) > 0
        /\ ~ParseLine(lines[Len(lines)]).ok
        /\ \A i \in 1..(Len(lines) - 1) : ParseLine(lines[i]).ok

WellFormed(file) == \E lines \in {LinesOf(file)} : \A i \in 1..Len(lines) : ParseLine(lines[i]).ok

\* C21: when the last line of a partition file is truncated or does not
\* parse, and every other line of the log is well formed, getEvents() does
\* not fail and returns every record that was written whole, in all
\* partitions.
C21_TornTailSkipped ==
    (/\ \E n \in DOMAIN eventFiles : TornTail(eventFiles[n])
     /\ \A n \in DOMAIN eventFiles : TornTail(eventFiles[n]) \/ WellFormed(eventFiles[n]))
    => \E r \in {getEvents(eventFiles)} : r.ok /\ r.events = appended

\* the IndexService half of C22
IndexStartsEmpty ==
    (last.op = "storeCommand" /\ last.unparseable)
    => (~last.threw /\ index = addToIndex(EmptyIndex, last.event))

\* the VectorStore half of C22
VectorsStartEmpty ==
    /\ (last.op = "loadVectors" /\ last.unparseable) => vectors = <<>>
    /\ last.op = "storeVector" => last.eventId \in DOMAIN vectors

\* C22: a service constructed over a document that does not parse starts
\* with an empty structure instead of failing, and the operation that
\* follows works on it: store indexes its event in an index that was empty,
\* the vector store is empty and takes the next vector.
C22_StartsEmptyWhenUnparseable == IndexStartsEmpty /\ VectorsStartEmpty

\* C23: when the process is interrupted while it writes index.json,
\* vectors.json or a monthly archive, the file on disk is the complete
\* document it held before or the complete new one.
C23_SnapshotsWrittenWhole ==
    last.op = "interrupted" =>
        CASE last.file = "index" -> index \in last.complete
          [] last.file = "vectors" -> vectors \in last.complete
          [] last.file = "archive" -> compacted \in last.complete

----------------------------------------------------------------------------
(* Properties of the index as a projection of the log *)

\* addToIndex over the events, in their order
RECURSIVE Replay(_, _)
Replay(idx, events) ==
    IF events = <<>> THEN idx
    ELSE Once({Replay(next, Tail(events)) : next \in {addToIndex(idx, Head(events))}})

\* the keyword map, the anchors and, for each session, startTime, endTime
\* and eventCount
Projection(idx) ==
    [keywords |-> idx.keywords,
     anchors |-> idx.anchors,
     sessions |-> [sid \in DOMAIN idx.sessions |->
                      [startTime |-> idx.sessions[sid].startTime,
                       endTime |-> idx.sessions[sid].endTime,
                       eventCount |-> idx.sessions[sid].eventCount]]]

\* C24: addToIndex replayed from the empty index over the events of the log,
\* in log order, gives the keyword map, the anchors and the startTime,
\* endTime and eventCount of every session that the live index has.
C24_IndexIsProjection ==
    \E r \in {getEvents(eventFiles)} :
        r.ok => Projection(Replay(EmptyIndex, r.events)) = Projection(index)

NoIdTwice(idx) ==
    \A k \in DOMAIN idx.keywords :
        \A i, j \in 1..Len(idx.keywords[k]) :
            idx.keywords[k][i] = idx.keywords[k][j] => i = j

\* C25: no operation takes an id out of the list of a keyword (the list
\* before is a prefix of the list after), and no id is twice in a list.
C25_KeywordListsGrow ==
    [][/\ \A k \in DOMAIN index.keywords :
            /\ k \in DOMAIN index'.keywords
            /\ IsPrefix(index.keywords[k], index'.keywords[k])
       /\ NoIdTwice(index')]_vars

\* addToIndex was called again for an event of a keyword that has two ids
C25_Witness ==
    /\ last.op = "addToIndex"
    /\ \E k \in DOMAIN index.keywords :
           /\ Len(index.keywords[k]) = 2
           /\ index.keywords[k][1] = last.event.id
    /\ index.sessions[last.event.sessionId].eventCount > 2

----------------------------------------------------------------------------
(* Properties of retrieval by keyword *)

\* No keyword that the loader extracts from the message has the id of an
\* event of the log in its list.
IndexedForNone(message) ==
    \A k \in SeqToSet(loaderExtractKeywords(message)) :
        \E lower \in {ToLowerCase(k)} :
            lower \in DOMAIN index.keywords =>
                \A i \in 1..Len(index.keywords[lower]) : index.keywords[lower][i] \notin LogIds

\* C26: buildContext for a message whose keywords are indexed for no event
\* of the log returns no "Relevant Memories" section and leaves the index as
\* it was (no access is recorded).
C26_NoMatchNoMemories ==
    [][\A m \in Queries :
          (/\ IndexedForNone(m)
           /\ last'.op = "buildContext"
           /\ ~last'.threw
           /\ last'.message = m)
          => (last'.memories = <<>> /\ index' = index)]_vars

\* "fish" was asked of a log of two indexed events, after a query that matched
C26_Witness ==
    /\ last.op = "buildContext"
    /\ ~last.threw
    /\ last.message.text = <<"fish">>
    /\ last.memories = <<>>
    /\ Len(appended) = 2
    /\ \E id \in DOMAIN index.eventMeta : index.eventMeta[id].accessCount > 0

\* C27: the string buildContext returns (Recent Sessions and Relevant
\* Memories with their headers, bullets, date prefixes and separators) is
\* at most maxTokens in estimated tokens.
C27_WithinMaxTokens ==
    (last.op = "buildContext" /\ ~last.threw)
    => CeilQuarter(ContextLength(last.anchors, last.memories)) <= MaxTokens

----------------------------------------------------------------------------
(* Properties of the effective score *)

\* The score of the event is lower a day later and higher after one more
\* access.
Monotone(id) ==
    \E score \in {calculateEffectiveScore(index, id, now)} :
        /\ calculateEffectiveScore(index, id, now + MsPerDay) < score
        /\ calculateEffectiveScore(recordAccess(index, id, now), id, now) > score

\* C28 as stated: the effective score of every indexed event is strictly
\* decreasing in its age and strictly increasing in its accessCount.
C28_ScoreMonotone == \A id \in DOMAIN index.eventMeta : Monotone(id)

\* C28, amended: the effective score of every indexed event whose baseScore
\* is positive is strictly decreasing in its age (in days) for a fixed
\* accessCount and strictly increasing in its accessCount for a fixed age.
C28_ScoreMonotoneWhenPositive ==
    \A id \in DOMAIN index.eventMeta : index.eventMeta[id].baseScore > 0 => Monotone(id)

\* an event of positive baseScore that is a day old and was accessed
C28_Witness ==
    \E id \in DOMAIN index.eventMeta :
        /\ index.eventMeta[id].baseScore > 0
        /\ index.eventMeta[id].accessCount > 0
        /\ now - index.eventMeta[id].createdAt = MsPerDay

\* C29: the keywords the loader extracts from a message are the keywords
\* extractKeywords gives for the same text (as sets), and the events of the
\* log that are indexed under one of them are among the candidates of the
\* query.
C29_SameKeywords ==
    (last.op = "buildContext" /\ ~last.threw /\ ContentLength(last.message) # 0)
    => \E stored \in {SeqToSet(extractKeywords(last.message))} :
           /\ SeqToSet(loaderExtractKeywords(last.message)) = stored
           /\ \A k \in stored \cap DOMAIN index.keywords :
                  \A i \in 1..Len(index.keywords[k]) :
                      index.keywords[k][i] \in LogIds
                      => \E j \in 1..Len(last.candidates) :
                             last.candidates[j].id = index.keywords[k][i]

----------------------------------------------------------------------------
(* Properties of the hooks *)

\* C30: after the compact command has run for a session with stored events,
\* the log holds an anchor event of the session or an archive holds its
\* CompactedSession.
C30_CompactSummarizes ==
    (/\ last.op = "compact"
     /\ last.sessionId # NoSession
     /\ OfSession(Log, last.sessionId) # <<>>)
    => \/ \E i \in 1..Len(Log) : IsAnchor(Log[i]) /\ Log[i].sessionId = last.sessionId
       \/ \E m \in DOMAIN compacted :
              compacted[m].ok /\ HasSession(compacted[m].sessions, last.sessionId)

----------------------------------------------------------------------------
(* The dual-memory server *)

\* the handler of a tool call that has just returned a result without isError
Succeeded == last.op = "callTool" /\ ~last.handler.isError

\* C31: every tool call that executes successfully increments the persisted
\* counter by exactly one (inc, the value that increment() persists, is one
\* more than the counter persisted when the counting began); when the counter
\* reaches the threshold compaction runs and the counter is reset before the
\* call returns, so the persisted counter is below the threshold, and is the
\* Counter's value, after every completed tool call.
C31_CountedAndReset ==
    Succeeded =>
        /\ last.handler.inc = last.handler.base + 1
        /\ last.handler.auto <=> last.handler.inc >= Threshold
        /\ shortterm.data.counter = (IF last.handler.inc >= Threshold THEN 0 ELSE last.handler.inc)
        /\ shortterm.data.counter < Threshold
        /\ counter.value = shortterm.data.counter

\* A call has counted up to the threshold and returned after the compaction;
\* an earlier call began the counting at 0.
C31_Witness ==
    /\ Succeeded
    /\ last.handler.auto
    /\ last.handler.base = Threshold - 1
    /\ \E p \in Calls : calls[p].pc = "done" /\ calls[p].ret = "increment"
                         /\ calls[p].before = 0 /\ ~calls[p].isError

\* ls without the blank lines at its ends
StripBlank(ls) ==
    LET kept == {i \in 1..Len(ls) : ls[i] # Blank}
    IN  IF kept = {} THEN <<>>
        ELSE SubSeq(ls, First(kept), CHOOSE i \in kept : \A j \in kept : j <= i)

\* The content of a section of the shortterm file: the lines between its
\* header and the header of the next section (or the closing line), without
\* the rule that separates the two sections and the blank lines around it.
SectionContent(lines, section) ==
    LET closing == {Title[s] : s \in Sections} \cup {"**End of Shortterm Memory**"}
        start == First({i \in 1..Len(lines) : lines[i] = Line(Title[section])})
        next == First({j \in (start + 1)..Len(lines) :
                            lines[j].stamp = <<>> /\ lines[j].text \in closing}
                      \cup {Len(lines) + 1})
        region == StripBlank(SubSeq(lines, start + 1, next - 1))
    IN  IF region # <<>> /\ region[Len(region)] = Rule
        THEN StripBlank(SubSeq(region, 1, Len(region) - 1))
        ELSE region

\* C32: resetShortterm preserves the content of the NOW, ACTIVE and NEXT
\* sections unchanged, whatever lines those sections contain, while the
\* counter is set to 0 and the INSIGHTS section is emptied.
C32_SectionsPreserved ==
    last.op = "resetShortterm" =>
        /\ \A section \in {"NOW", "ACTIVE", "NEXT"} :
                SectionContent(shortterm.content, section)
                    = SectionContent(last.read.content, section)
        /\ shortterm.data.counter = 0
        /\ SectionContent(shortterm.content, "INSIGHTS") = <<>>

----------------------------------------------------------------------------
(* Archives, order and integrity *)

\* C33: a CompactedSession already in a monthly archive is never altered:
\* later stores of events for the same session id, and later compactSession
\* or compactOldSessions calls, leave it (its originalEventCount, summary,
\* startTime, endTime, compactedAt and every other field) as first written;
\* new entries are only added after it.
C33_ArchivedNeverAltered ==
    [][\A m \in DOMAIN compacted :
          /\ m \in DOMAIN compacted'
          /\ IsPrefix(compacted[m].sessions, compacted'[m].sessions)]_vars

\* A session was archived with one event, a second event of the same session
\* was stored later, and compactSession has been called for it again.
C33_Witness ==
    /\ last.op = "compactSession"
    /\ \E m \in DOMAIN compacted : \E i \in 1..Len(compacted[m].sessions) :
            /\ compacted[m].sessions[i].sessionId = last.sessionId
            /\ compacted[m].sessions[i].originalEventCount = 1
            /\ Len(OfSession(Log, last.sessionId)) = 2

\* The event log holds the event a before the event b.
LogOrder(a, b) == \E i, j \in 1..Len(Log) : i < j /\ Log[i] = a /\ Log[j] = b

\* C34: the triggered memories are output in non-increasing order of their
\* combined score (calculateScore at the time of the call), and candidates
\* with equal score keep their relative order from the event log.
C34_OrderedByScore ==
    [][(last'.op = "buildContext" /\ ~last'.threw) =>
          \E keywords \in {loaderExtractKeywords(last'.message)} :
          \A i, j \in 1..Len(last'.candidates) :
              i < j =>
                  \E si \in {calculateScore(index, last'.candidates[i], keywords, now)},
                     sj \in {calculateScore(index, last'.candidates[j], keywords, now)} :
                      /\ si >= sj
                      /\ si = sj => LogOrder(last'.candidates[i], last'.candidates[j])]_vars

\* Two memories have been output, the later event of the log first.
C34_Witness ==
    /\ last.op = "buildContext"
    /\ ~last.threw
    /\ Len(Log) = 2
    /\ last.memories = <<Log[2], Log[1]>>

\* C35: after any sequence of store, addToIndex and endSession operations,
\* for every session the index entry sessions[s] has eventCount equal to the
\* number of events in the event log with that sessionId, startTime equal to
\* the timestamp of the first of them and endTime to that of the last.
C35_SessionCounters ==
    \A sid \in LogSessions :
        /\ sid \in DOMAIN index.sessions
        /\ \E events \in {OfSession(Log, sid)} :
               /\ index.sessions[sid].eventCount = Len(events)
               /\ index.sessions[sid].startTime = events[1].timestamp
               /\ index.sessions[sid].endTime = events[Len(events)].timestamp

\* C36: the CLI store command reuses the session id of the previous store
\* exactly when the last recorded activity is less than 30 minutes old, and
\* each reuse refreshes the recorded activity time; otherwise (older
\* activity, missing or unreadable session file) it creates and records a new
\* session id that differs from the previous one (from the session id of
\* every event in the log).
C36_SessionReuse ==
    [][(last'.op = "store" /\ last'.stored) =>
          \E sid \in {last'.event.sessionId} :
              /\ sessionFile' = <<[sessionId |-> sid, timestamp |-> now]>>
              /\ IF /\ sessionFile # <<>>
                    /\ sessionFile[1].timestamp # NaN
                    /\ now - sessionFile[1].timestamp < 30 * 60 * 1000
                 THEN sid = sessionFile[1].sessionId
                 ELSE \A i \in 1..Len(Log) : Log[i].sessionId # sid]_vars

\* Three stores: the second, 30 minutes after the first, made a new session;
\* the third, 29:59.999 after the second, reused it.
C36_Witness ==
    /\ last.op = "store"
    /\ Len(Log) = 3
    /\ Log[1].sessionId # Log[2].sessionId
    /\ Log[2].timestamp - Log[1].timestamp = 30 * 60 * 1000
    /\ Log[3].sessionId = Log[2].sessionId
    /\ Log[3].timestamp - Log[2].timestamp = 30 * 60 * 1000 - 1

\* the event ids that the index names: in a keyword list, in the anchors
\* list or as a key of eventMeta
IndexedIds(idx) ==
    UNION {SeqToSet(idx.keywords[k]) : k \in DOMAIN idx.keywords}
        \cup SeqToSet(idx.anchors) \cup DOMAIN idx.eventMeta

\* C37: referential integrity of the index: in every reachable state, every
\* event id that occurs in a keyword list, in the anchors list or as a key of
\* eventMeta is the id of an event present in the event log, also if the
\* process stops between the log append and the index update of a store.
C37_IndexedIdsInLog == IndexedIds(loadIndex(index).index) \subseteq LogIds

\* A store was interrupted before its index update: the log holds an event
\* that the index does not name, and an earlier event that it does.
C37_Witness ==
    /\ last.op = "interrupted"
    /\ last.file = "index"
    /\ loadIndex(index).ok
    /\ IndexedIds(index) # {}
    /\ IndexedIds(index) # LogIds

----------------------------------------------------------------------------
(* Overlapping writers *)

\* The index holds the keyword, session and eventMeta entries of the event.
HoldsEntries(idx, event) ==
    /\ event.id \in DOMAIN idx.eventMeta
    /\ \A i \in 1..Len(event.keywords) :
           /\ ToLowerCase(event.keywords[i]) \in DOMAIN idx.keywords
           /\ Includes(idx.keywords[ToLowerCase(event.keywords[i])], event.id)
    /\ event.sessionId \in DOMAIN idx.sessions

BothStored == \A p \in Processes : stores[p].pc = "done"

\* C38: when two store invocations run as separate processes on the same
\* memory directory and overlap, the persisted index afterwards contains the
\* keyword, session and eventMeta entries of both events: no store's index
\* update is lost.
C38_NoIndexUpdateLost ==
    BothStored => \A p \in Processes : HoldsEntries(index, stores[p].event)

----------------------------------------------------------------------------
(* Concurrent tool calls *)

\* the insights in the shortterm file
Insights(file) == {j \in 1..Len(file.content) : file.content[j].stamp # <<>>}
Updates == {p \in TwoCalls : calls[p].pc = "done" /\ calls[p].request.name = "memory_update"}
BothReturned == \A p \in TwoCalls : calls[p].pc = "done" /\ ~calls[p].isError

\* C39: when two tool calls are handled concurrently and their handlers
\* interleave at await points, no update to the shortterm file is lost: once
\* both calls have finished, every insight added by memory_update is in the
\* file and the persisted counter equals the Counter's in-memory value.
C39_NoUpdateLost ==
    BothReturned =>
        /\ Cardinality(Insights(shortterm)) = Cardinality(Updates)
        /\ shortterm.data.counter = counter.value

----------------------------------------------------------------------------
(* Failed tool calls *)

\* a tool call has just returned isError from its tool: the name is unknown,
\* or the tool has raised an error (the counting had not begun)
ToolFailed == last.op = "callTool" /\ last.handler.isError /\ last.handler.stage = "tool"

====
